---------------------------- MODULE Spec2Model ----------------------------
(***************************************************************************)
(* FeatureRegistry (src/src/core/feature-registry.ts) and PluginManager    *)
(* (src/src/core/plugin-manager.ts) as a state machine.                    *)
(*                                                                         *)
(* A JavaScript Map is modelled as a sequence of entries in insertion      *)
(* order (Map.set on a present key replaces the value in place, on an      *)
(* absent key appends).  `undefined` is the string Undefined; identifiers  *)
(* (feature ids, implementation names, plugin ids) are non-empty strings.  *)
(***************************************************************************)
EXTENDS Integers, Sequences, FiniteSets, TLC

----------------------------------------------------------------------------
(* Values *)

Undefined == "<undefined>"

\* JavaScript truthiness of an optional string
Truthy(s) == s # Undefined /\ s # ""

FeatureIds == {"x", "y"}

ImplNames == {"default", "alt"}

PluginIds == {"pA", "pB"}

\* Feature instances: id, the optional implementationName property and the
\* outcome of the instance's isApplicable
FeatureObjects ==
  [id : FeatureIds,
   implementationName : ImplNames \cup {Undefined},
   isApplicable : {"true", "false", "throws"}]

FeatureObject(id, implementationName, outcome) ==
  [id |-> id, implementationName |-> implementationName, isApplicable |-> outcome]

NoFeature ==
  [id |-> Undefined, implementationName |-> Undefined, isApplicable |-> Undefined]

\* The instances handed to registerFeature
Features ==
  {f \in FeatureObjects :
     \/ f.id = "x" /\ f.implementationName = Undefined /\ f.isApplicable = "true"
     \/ f.id = "x" /\ f.implementationName = "default" /\ f.isApplicable = "false"
     \/ f.id = "x" /\ f.implementationName = "alt" /\ f.isApplicable = "throws"
     \/ f.id = "y" /\ f.implementationName = "alt" /\ f.isApplicable = "false"}

\* FeatureMapping.priority when the property is missing
NoPriority == -1

MaxPriority == 1

MaxMappings == 3

Priorities == {NoPriority} \cup (0..MaxPriority)

\* FeatureMapping records of a SiteConfig
Mappings ==
  {m \in [featureId : FeatureIds,
          implementation : ImplNames \cup {Undefined},
          enabled : BOOLEAN,
          priority : Priorities] :
     /\ <<m.featureId, m.implementation>> \in
          {<<"x", Undefined>>, <<"x", "alt">>, <<"y", "default">>}
     /\ ~m.enabled => m.priority = NoPriority}

RECURSIVE SeqsUpTo(_, _)
SeqsUpTo(S, n) ==
  IF n = 0 THEN {<<>>}
  ELSE LET shorter == SeqsUpTo(S, n - 1)
       IN  shorter \cup {Append(q, e) : q \in {r \in shorter : Len(r) = n - 1}, e \in S}

\* SiteConfig: only enabledFeatures is read by the registry
SiteConfigs == [enabledFeatures : SeqsUpTo(Mappings, MaxMappings)]

EmptySiteConfig == [enabledFeatures |-> <<>>]

Url == "https://example.com"

----------------------------------------------------------------------------
(* Ordered maps *)

Indices(m, k) == {i \in 1..Len(m) : m[i].name = k}

MapHas(m, k) == Indices(m, k) # {}

MapGet(m, k) == m[CHOOSE i \in Indices(m, k) : TRUE]

MapKeys(m) == [i \in 1..Len(m) |-> m[i].name]

\* Mutant: Map.set that always adds a new entry
MapSet_Append(m, e) == Append(m, e)

MapSet(m, e) ==
  IF MapHas(m, e.name)
    THEN [i \in 1..Len(m) |-> IF m[i].name = e.name THEN e ELSE m[i]]
    ELSE Append(m, e)

MapDelete(m, k) == SelectSeq(m, LAMBDA e : e.name # k)

----------------------------------------------------------------------------
(* FeatureRegistry *)

\* The fields of the FeatureRegistry, the last call made on it, and the
\* SiteConfig handed in by the caller
VARIABLES features, defaultImplementations, aliases, last, siteConfig

\* The fields of the PluginManager, the status field of the plugin
\* instances, and the calls of its async methods that are in flight
VARIABLES plugins, status, isInitialized, initializing, loading, unloading,
          disposing, invocation, featureCall

registryVars == <<features, defaultImplementations, aliases>>

managerVars ==
  <<plugins, status, isInitialized, initializing, loading, unloading,
    disposing, invocation, featureCall>>

vars == <<features, defaultImplementations, aliases, last, siteConfig, managerVars>>

\* The three maps of one FeatureRegistry
Registry ==
  [features |-> features,
   defaultImplementations |-> defaultImplementations,
   aliases |-> aliases]

EmptyRegistry ==
  [features |-> [k \in {} |-> <<>>],
   defaultImplementations |-> [k \in {} |-> Undefined],
   aliases |-> [k \in {} |-> Undefined]]

\* Map.get on a string-keyed Map of strings
Lookup(m, k) == IF k \in DOMAIN m THEN m[k] ELSE Undefined

Put(m, k, v) == [j \in DOMAIN m \cup {k} |-> IF j = k THEN v ELSE m[j]]

Remove(m, k) == [j \in DOMAIN m \ {k} |-> m[j]]

getImplementationName(feature) ==
  IF feature.implementationName # Undefined
    THEN feature.implementationName
    ELSE "default"

\* The condition under which registerFeature records the default
SetsDefault(reg, featureId, isDefault) ==
  isDefault \/ featureId \notin DOMAIN reg.defaultImplementations

registerFeature(reg, feature, pluginId, isDefault) ==
  LET featureId == feature.id
      implementationName == getImplementationName(feature)
      implementations ==
        IF featureId \in DOMAIN reg.features THEN reg.features[featureId] ELSE <<>>
      entry == [name |-> implementationName, feature |-> feature, pluginId |-> pluginId]
  IN  [features |-> Put(reg.features, featureId, MapSet(implementations, entry)),
       defaultImplementations |->
         IF SetsDefault(reg, featureId, isDefault)
           THEN Put(reg.defaultImplementations, featureId, implementationName)
           ELSE reg.defaultImplementations,
       aliases |-> reg.aliases]

\* Mutant: alias resolution that follows a second alias
resolveAlias_TwoHops(reg, featureId) ==
  LET first == IF Truthy(Lookup(reg.aliases, featureId))
                 THEN Lookup(reg.aliases, featureId) ELSE featureId
  IN  IF Truthy(Lookup(reg.aliases, first)) THEN Lookup(reg.aliases, first) ELSE first

\* this.aliases.get(featureId) || featureId
resolveAlias(reg, featureId) ==
  LET aliased == Lookup(reg.aliases, featureId)
  IN  IF Truthy(aliased) THEN aliased ELSE featureId

getFeature(reg, featureId, implementationName) ==
  LET resolvedFeatureId == resolveAlias(reg, featureId)
  IN  IF resolvedFeatureId \notin DOMAIN reg.features
        THEN NoFeature
        ELSE
          LET implementations == reg.features[resolvedFeatureId]
              implName ==
                IF Truthy(implementationName)
                  THEN implementationName
                  ELSE Lookup(reg.defaultImplementations, resolvedFeatureId)
          IN  IF ~Truthy(implName)
                THEN NoFeature
                ELSE IF MapHas(implementations, implName)
                       THEN MapGet(implementations, implName).feature
                       ELSE NoFeature

\* Mutant: the owner of the entry is not compared
OwnerMismatch_Ignored(entry, pluginId) == FALSE

\* pluginId && entry.pluginId !== pluginId
OwnerMismatch(entry, pluginId) == Truthy(pluginId) /\ entry.pluginId # pluginId

\* Mutant: the implementation registered last becomes the default
NewDefault_Last(remainingImpls) == remainingImpls[Len(remainingImpls)]

\* this.defaultImplementations.set(featureId, remainingImpls[0])
NewDefault(remainingImpls) == remainingImpls[1]

\* Mutant: the owner of an entry is not looked at
WithoutOwned_All(implementations, pluginId) == <<>>

\* for (const [implName, entry] of implementations.entries())
\*   if (entry.pluginId === pluginId) implementations.delete(implName)
WithoutOwned(implementations, pluginId) ==
  SelectSeq(implementations, LAMBDA e : e.pluginId # pluginId)

\* The result is the registry after the call and the returned flag
unregisterFeature(reg, featureId, implementationName, pluginId) ==
  IF featureId \notin DOMAIN reg.features
    THEN [reg |-> reg, returned |-> FALSE]
    ELSE
      LET implementations == reg.features[featureId]
      IN  IF Truthy(implementationName)
            THEN
              IF \/ ~MapHas(implementations, implementationName)
                 \/ OwnerMismatch(MapGet(implementations, implementationName), pluginId)
                THEN [reg |-> reg, returned |-> FALSE]
                ELSE
                  LET remaining == MapDelete(implementations, implementationName)
                      remainingImpls == MapKeys(remaining)
                      defaults ==
                        IF Lookup(reg.defaultImplementations, featureId) = implementationName
                          THEN IF Len(remainingImpls) > 0
                                 THEN Put(reg.defaultImplementations, featureId,
                                          NewDefault(remainingImpls))
                                 ELSE Remove(reg.defaultImplementations, featureId)
                          ELSE reg.defaultImplementations
                  IN  [reg |->
                         [features |->
                            IF Len(remaining) = 0
                              THEN Remove(reg.features, featureId)
                              ELSE Put(reg.features, featureId, remaining),
                          defaultImplementations |-> defaults,
                          aliases |-> reg.aliases],
                       returned |-> TRUE]
            ELSE
              IF Truthy(pluginId)
                THEN
                  LET remaining == WithoutOwned(implementations, pluginId)
                      removed == Len(remaining) < Len(implementations)
                  IN  [reg |->
                         IF Len(remaining) = 0
                           THEN [features |-> Remove(reg.features, featureId),
                                 defaultImplementations |->
                                   Remove(reg.defaultImplementations, featureId),
                                 aliases |-> reg.aliases]
                           ELSE [features |-> Put(reg.features, featureId, remaining),
                                 defaultImplementations |-> reg.defaultImplementations,
                                 aliases |-> reg.aliases],
                       returned |-> removed]
                ELSE
                  [reg |->
                     [features |-> Remove(reg.features, featureId),
                      defaultImplementations |-> Remove(reg.defaultImplementations, featureId),
                      aliases |-> reg.aliases],
                   returned |-> TRUE]

setAlias(reg, alias, featureId) ==
  [features |-> reg.features,
   defaultImplementations |-> reg.defaultImplementations,
   aliases |-> Put(reg.aliases, alias, featureId)]

clear(reg) == EmptyRegistry

\* Sum of implementations.size over the feature ids ks
RECURSIVE SumSizes(_, _)
SumSizes(m, ks) ==
  IF ks = {} THEN 0
  ELSE LET k == CHOOSE j \in ks : TRUE
       IN  Len(m[k]) + SumSizes(m, ks \ {k})

\* The (featureId, position) pairs of all entries
EntryPositions(m) == UNION {{<<k, i>> : i \in 1..Len(m[k])} : k \in DOMAIN m}

PluginKey(pluginId) == IF Truthy(pluginId) THEN pluginId ELSE "unknown"

getStats(reg) ==
  LET m == reg.features
      owners == {PluginKey(m[ki[1]][ki[2]].pluginId) : ki \in EntryPositions(m)}
  IN  [totalFeatures |-> Cardinality(DOMAIN m),
       totalImplementations |-> SumSizes(m, DOMAIN m),
       pluginBreakdown |->
         [p \in owners |->
            Cardinality({ki \in EntryPositions(m) :
                           PluginKey(m[ki[1]][ki[2]].pluginId) = p})]]

\* a.priority || 999
DefaultPriority == 999

PriorityOrDefault(priority) ==
  IF priority = NoPriority \/ priority = 0 THEN DefaultPriority ELSE priority

\* The comparator handed to Array.prototype.sort
ComparePriority(a, b) == PriorityOrDefault(a.priority) - PriorityOrDefault(b.priority)

\* Array.prototype.sort is stable: position i goes behind every position
\* already placed that does not compare greater
InsertStable(ms, sorted, i) ==
  LET behind == {k \in 1..Len(sorted) : ComparePriority(ms[sorted[k]], ms[i]) <= 0}
      n == IF behind = {} THEN 0 ELSE CHOOSE k \in behind : \A j \in behind : j <= k
  IN  SubSeq(sorted, 1, n) \o <<i>> \o SubSeq(sorted, n + 1, Len(sorted))

RECURSIVE SortPositions(_, _)
SortPositions(ms, n) ==
  IF n = 0 THEN <<>> ELSE InsertStable(ms, SortPositions(ms, n - 1), n)

\* [...siteConfig.enabledFeatures].sort(...), as the positions of the
\* mappings in enabledFeatures
sortedMappings(config) ==
  SortPositions(config.enabledFeatures, Len(config.enabledFeatures))

\* feature.isApplicable(url, siteConfig): "true", "false" or "throws"
isApplicable(feature, url, config) == feature.isApplicable

\* Mutant: an exception of isApplicable is not caught
CheckApplicability_NoCatch(feature, url, config) ==
  LET outcome == isApplicable(feature, url, config)
  IN  [push |-> outcome = "true", raised |-> outcome = "throws"]

\* try { if (feature.isApplicable(...)) push } catch { log }
CheckApplicability(feature, url, config) ==
  LET outcome == isApplicable(feature, url, config)
  IN  [push |-> outcome = "true", raised |-> FALSE]

\* One iteration of the for loop over sortedMappings
VisitMapping(reg, config, url, acc, position) ==
  LET mapping == config.enabledFeatures[position]
      feature == getFeature(reg, mapping.featureId, mapping.implementation)
  IN  IF acc.raised THEN acc
      ELSE IF ~mapping.enabled THEN acc
      ELSE IF feature = NoFeature THEN acc
      ELSE LET c == CheckApplicability(feature, url, config)
           IN  IF c.raised THEN [acc EXCEPT !.raised = TRUE, !.checked = @ + 1]
               ELSE IF c.push
                 THEN [acc EXCEPT !.applicableFeatures = Append(@, feature),
                                  !.positions = Append(@, position),
                                  !.checked = @ + 1]
                 ELSE [acc EXCEPT !.checked = @ + 1]

RECURSIVE VisitAll(_, _, _, _, _)
VisitAll(reg, config, url, order, n) ==
  IF n = 0
    THEN [applicableFeatures |-> <<>>, positions |-> <<>>, checked |-> 0,
          raised |-> FALSE]
    ELSE VisitMapping(reg, config, url, VisitAll(reg, config, url, order, n - 1), order[n])

\* applicableFeatures is what the method returns; positions names, for each
\* returned Feature, the position in enabledFeatures of the mapping that
\* produced it; checked counts the calls of isApplicable; raised tells that
\* the call threw instead of returning
getApplicableFeatures(reg, config, url) ==
  LET order == sortedMappings(config)
  IN  VisitAll(reg, config, url, order, Len(order))

----------------------------------------------------------------------------
(* PluginManager: values *)

\* Plugin instances: P1 has every optional lifecycle method, P2 has none
PluginObjects == {"P1", "P2"}

\* A further plugin instance that contributes a second implementation of
\* P2's featureId
SharingObjects == {"P3"}

Plugin(p) ==
  CASE p = "P1" ->
         [id |-> "pA",
          features |-> <<FeatureObject("x", Undefined, "true"),
                         FeatureObject("x", "alt", "true")>>,
          activate |-> TRUE, deactivate |-> TRUE, dispose |-> TRUE]
    [] p = "P2" ->
         [id |-> "pB",
          features |-> <<FeatureObject("y", Undefined, "true")>>,
          activate |-> FALSE, deactivate |-> FALSE, dispose |-> FALSE]
    [] p = "P3" ->
         [id |-> "pC",
          features |-> <<FeatureObject("y", "alt", "true")>>,
          activate |-> FALSE, deactivate |-> FALSE, dispose |-> FALSE]

\* const pluginModules = [ { path, name }, ... ]: the descriptor of the
\* text-summary plugin and a second one, so that pluginModules.map fans out
pluginModules == <<"text-summary-plugin", "another-plugin">>

\* module.default || module[name]: the plugin instance a module exports
ModuleExport(slot) ==
  IF slot = "text-summary-plugin" THEN "P1" ELSE "P2"

Modules == {pluginModules[i] : i \in 1..Len(pluginModules)}

\* What a dynamic import of a module yields: a failure, an object that is
\* not a valid plugin, or a plugin
ImportOutcomes == {"failed", "invalid"} \cup PluginObjects

\* The site configs handed to executeApplicableFeatures: enabled mappings
\* without priority for the implementation "alt" of x and the default
\* implementation of y, each at most once, in either order
ManagerSiteConfigs ==
  {c \in SiteConfigs :
     \A i \in 1..Len(c.enabledFeatures) :
       /\ c.enabledFeatures[i].enabled
       /\ c.enabledFeatures[i].priority = NoPriority
       /\ c.enabledFeatures[i].implementation # Undefined
       /\ \A j \in 1..Len(c.enabledFeatures) :
            c.enabledFeatures[i] = c.enabledFeatures[j] => i = j}

\* How a call of feature.execute settles
ExecuteOutcomes == {"success", "failure", "throws"}

\* The same with a result that has success = false and no error property
ResultOutcomes == ExecuteOutcomes \cup {"failure without message"}

\* The FeatureExecutionResult a Feature's execute resolves with; an absent
\* error property is the empty message
ExecuteResult(outcome) ==
  CASE outcome = "success" -> [success |-> TRUE, error |-> <<>>]
    [] outcome = "failure" -> [success |-> FALSE, error |-> <<"declined">>]
    [] outcome = "failure without message" -> [success |-> FALSE, error |-> <<>>]

\* Outside callers of loadPlugin: one who awaits each call before making the
\* next, and one who calls while another call is suspended
Callers == {"external", "overlapping"}

\* The callers of loadPlugin: the discovery of a module, or an outside caller
LoadSlots == Modules \cup Callers

\* The callers of unloadPlugin: dispose() for each plugin id, or the outside
\* caller
UnloadSlots == PluginIds \cup {"external"}

\* A call of loadPlugin or unloadPlugin: where it is suspended, the plugin
\* instance it works on and the plugin id it was called with
IdleTask == [pc |-> "idle", plugin |-> Undefined, pluginId |-> Undefined]

IdleInitialize == [pc |-> "idle", modules |-> [i \in Modules |-> "idle"]]

\* pending: the unloadPlugin calls Promise.all still waits for
IdleDispose == [pc |-> "idle", pending |-> {}, failed |-> FALSE]

\* No call of executeFeature has been made
NoFeatureCall ==
  [pc |-> "idle", featureId |-> Undefined, implementation |-> Undefined,
   executed |-> NoFeature, outcome |-> "none",
   result |-> [success |-> FALSE, error |-> <<>>]]

NoInvocation ==
  [pc |-> "idle", wasInitialized |-> FALSE, applicable |-> <<>>, checked |-> 0,
   started |-> {}, inProgress |-> {}, hung |-> {}, pluginOf |-> <<>>,
   settings |-> <<>>, pluginResults |-> <<>>, log |-> <<>>]

\* A new PluginManager; the plugin instances have not been loaded
InitManager ==
  /\ plugins = <<>>
  /\ status = [p \in PluginObjects |-> "unloaded"]
  /\ isInitialized = FALSE
  /\ initializing = IdleInitialize
  /\ loading = [slot \in LoadSlots |-> IdleTask]
  /\ unloading = [slot \in UnloadSlots |-> IdleTask]
  /\ disposing = IdleDispose
  /\ invocation = NoInvocation
  /\ featureCall = NoFeatureCall

----------------------------------------------------------------------------
(* Calls on the registry; `last` records the call and what it returned *)

Call(op, featureId, implementationName, pluginId, isDefault, feature, returned) ==
  [op |-> op, featureId |-> featureId, implementationName |-> implementationName,
   pluginId |-> pluginId, isDefault |-> isDefault, feature |-> feature,
   returned |-> returned]

NoCall == Call("none", Undefined, Undefined, Undefined, FALSE, NoFeature, FALSE)

SetRegistry(reg) ==
  /\ features' = reg.features
  /\ defaultImplementations' = reg.defaultImplementations
  /\ aliases' = reg.aliases

\* `feature` is the instance passed in
CallRegisterFeature ==
  \E feature \in Features, pluginId \in PluginIds \cup {Undefined}, isDefault \in BOOLEAN :
    /\ UNCHANGED <<siteConfig, managerVars>>
    /\ SetRegistry(registerFeature(Registry, feature, pluginId, isDefault))
    /\ last' = Call("registerFeature", feature.id, getImplementationName(feature),
                    pluginId, isDefault, feature, FALSE)

CallUnregisterFeature ==
  \E featureId \in FeatureIds, implementationName \in ImplNames \cup {Undefined},
     pluginId \in PluginIds \cup {Undefined} :
    LET r == unregisterFeature(Registry, featureId, implementationName, pluginId)
    IN  /\ UNCHANGED <<siteConfig, managerVars>>
        /\ SetRegistry(r.reg)
        /\ last' = Call("unregisterFeature", featureId, implementationName,
                        pluginId, FALSE, NoFeature, r.returned)

\* `feature` is the instance returned (NoFeature for undefined)
CallGetFeature ==
  \E featureId \in FeatureIds, implementationName \in ImplNames \cup {Undefined} :
    /\ UNCHANGED <<registryVars, siteConfig, managerVars>>
    /\ last' = Call("getFeature", featureId, implementationName, Undefined, FALSE,
                    getFeature(Registry, featureId, implementationName), FALSE)

\* `implementationName` holds the alias, `featureId` its target
CallSetAlias ==
  \E alias \in FeatureIds : \E featureId \in FeatureIds \ {alias} :
    /\ UNCHANGED <<siteConfig, managerVars>>
    /\ SetRegistry(setAlias(Registry, alias, featureId))
    /\ last' = Call("setAlias", featureId, alias, Undefined, FALSE, NoFeature, FALSE)

CallClear ==
  /\ UNCHANGED <<siteConfig, managerVars>>
  /\ SetRegistry(clear(Registry))
  /\ last' = Call("clear", Undefined, Undefined, Undefined, FALSE, NoFeature, FALSE)

Init ==
  /\ features = EmptyRegistry.features
  /\ defaultImplementations = EmptyRegistry.defaultImplementations
  /\ aliases = EmptyRegistry.aliases
  /\ last = NoCall
  /\ siteConfig = EmptySiteConfig
  /\ InitManager

Next ==
  \/ CallRegisterFeature
  \/ CallUnregisterFeature
  \/ CallGetFeature
  \/ CallSetAlias
  \/ CallClear

Spec == Init /\ [][Next]_vars

----------------------------------------------------------------------------
(* unregisterFeature on a featureId with up to three implementations *)

\* The implementation names under which x is registered
UnregisterNames == ImplNames \cup {"beta"}

\* The arguments of a registerFeature call for x
Registrations ==
  [name : UnregisterNames, pluginId : PluginIds \cup {Undefined}, isDefault : BOOLEAN]

RECURSIVE RegisterEach(_, _)
RegisterEach(reg, rs) ==
  IF rs = <<>> THEN reg
  ELSE RegisterEach(registerFeature(reg, FeatureObject("x", Head(rs).name, "true"),
                                    Head(rs).pluginId, Head(rs).isDefault),
                    Tail(rs))

\* Up to three registrations of x under distinct names
RegistrationLists ==
  {rs \in SeqsUpTo(Registrations, Cardinality(UnregisterNames)) :
     \A i \in 1..Len(rs), j \in 1..Len(rs) : rs[i].name = rs[j].name => i = j}

\* The registries the calls are made on: y/default of plugin pA, then x
UnregisterRegistries ==
  {RegisterEach(registerFeature(EmptyRegistry, FeatureObject("y", Undefined, "true"),
                                "pA", FALSE), rs) : rs \in RegistrationLists}

CallUnregisterFeatureOf ==
  \E featureId \in FeatureIds, implementationName \in UnregisterNames \cup {Undefined},
     pluginId \in PluginIds \cup {Undefined} :
    LET r == unregisterFeature(Registry, featureId, implementationName, pluginId)
    IN  /\ UNCHANGED <<siteConfig, managerVars>>
        /\ SetRegistry(r.reg)
        /\ last' = Call("unregisterFeature", featureId, implementationName,
                        pluginId, FALSE, NoFeature, r.returned)

InitUnregister ==
  /\ \E reg \in UnregisterRegistries :
       /\ features = reg.features
       /\ defaultImplementations = reg.defaultImplementations
       /\ aliases = reg.aliases
  /\ last = NoCall
  /\ siteConfig = EmptySiteConfig
  /\ InitManager

NextUnregister == CallUnregisterFeatureOf

SpecUnregister == InitUnregister /\ [][NextUnregister]_vars

----------------------------------------------------------------------------
(* getApplicableFeatures on a populated registry *)

RECURSIVE RegisterAll(_, _, _)
RegisterAll(reg, fs, pluginId) ==
  IF fs = <<>> THEN reg
  ELSE RegisterAll(registerFeature(reg, Head(fs), pluginId, FALSE), Tail(fs), pluginId)

\* The Feature lists registered before the call: x/default, x/alt and
\* y/default with at most one of them not applicable, and the first two alone
SiteFeatureLists ==
  LET Outcomes == {"true", "false", "throws"}
      triples == {o \in [1..3 -> Outcomes] : Cardinality({i \in 1..3 : o[i] # "true"}) <= 1}
      full == {<<FeatureObject("x", Undefined, o[1]), FeatureObject("x", "alt", o[2]),
                 FeatureObject("y", "default", o[3])>> : o \in triples}
  IN  full \cup {SubSeq(fs, 1, 2) : fs \in {gs \in full : gs[3].isApplicable = "true"}}

\* The registries the call is made on; y is an alias of x in those that
\* hold no Feature under y
SiteRegistries ==
  {LET reg == RegisterAll(EmptyRegistry, fs, "pA")
   IN  IF Len(fs) = 2 THEN setAlias(reg, "y", "x") ELSE reg : fs \in SiteFeatureLists}

\* `result` is what getApplicableFeatures computed for siteConfig
CallGetApplicableFeatures ==
  /\ last = NoCall
  /\ UNCHANGED <<registryVars, siteConfig, managerVars>>
  /\ last' = [op |-> "getApplicableFeatures",
              result |-> getApplicableFeatures(Registry, siteConfig, Url)]

InitSite ==
  /\ \E reg \in SiteRegistries :
       /\ features = reg.features
       /\ defaultImplementations = reg.defaultImplementations
       /\ aliases = reg.aliases
  /\ siteConfig \in SiteConfigs
  /\ last = NoCall
  /\ InitManager

NextSite == CallGetApplicableFeatures

SpecSite == InitSite /\ [][NextSite]_vars

----------------------------------------------------------------------------
(* PluginManager: lifecycle *)

\* this.plugins as the sequence of its values in insertion order
PluginsHas(ps, pluginId) == \E i \in 1..Len(ps) : Plugin(ps[i]).id = pluginId

PluginsGet(ps, pluginId) ==
  IF PluginsHas(ps, pluginId)
    THEN ps[CHOOSE i \in 1..Len(ps) : Plugin(ps[i]).id = pluginId]
    ELSE Undefined

PluginsSet(ps, p) ==
  IF PluginsHas(ps, Plugin(p).id)
    THEN [i \in 1..Len(ps) |-> IF Plugin(ps[i]).id = Plugin(p).id THEN p ELSE ps[i]]
    ELSE Append(ps, p)

PluginsDelete(ps, pluginId) == SelectSeq(ps, LAMBDA q : Plugin(q).id # pluginId)

RECURSIVE registerPluginFeatures(_, _, _)
\* plugin.features.forEach((feature, index) => registerFeature(feature, plugin.id, index === 0))
registerPluginFeatures(reg, p, n) ==
  IF n = 0 THEN reg
  ELSE registerFeature(registerPluginFeatures(reg, p, n - 1),
                       Plugin(p).features[n], Plugin(p).id, n = 1)

RECURSIVE UnregisterEach(_, _, _, _)
UnregisterEach(reg, fs, pluginId, n) ==
  IF n = 0 THEN reg
  ELSE unregisterFeature(UnregisterEach(reg, fs, pluginId, n - 1),
                         fs[n].id, Undefined, pluginId).reg

\* Reads this.plugins at the time it runs
unregisterPluginFeatures(reg, ps, pluginId) ==
  IF ~PluginsHas(ps, pluginId) THEN reg
  ELSE LET fs == Plugin(PluginsGet(ps, pluginId)).features
       IN  UnregisterEach(reg, fs, pluginId, Len(fs))

\* The state of the manager and its registry that the lifecycle methods
\* read and write between two awaits
World ==
  [reg |-> Registry, plugins |-> plugins, status |-> status]

SetWorld(w) ==
  /\ SetRegistry(w.reg)
  /\ plugins' = w.plugins
  /\ status' = w.status

\* A step of loadPlugin or unloadPlugin yields the world after it, the pc
\* at which the call is suspended ("idle" when it has settled) and, when it
\* has settled, whether it returned or threw
Suspended(w, pc) == [world |-> w, pc |-> pc, result |-> "none"]

Returned(w) == [world |-> w, pc |-> "idle", result |-> "returned"]

Threw(w) == [world |-> w, pc |-> "idle", result |-> "threw"]

\* Mutant: loadPlugin without the check of this.plugins.has(plugin.id)
loadPluginStart_NoCheck(w, p) ==
  Suspended([w EXCEPT !.status[p] = "loading"], "initialize")

\* loadPlugin up to its first await
loadPluginStart(w, p) ==
  IF PluginsHas(w.plugins, Plugin(p).id)
    THEN Returned(w)
    ELSE Suspended([w EXCEPT !.status[p] = "loading"], "initialize")

\* Mutant: a failure of plugin.initialize is ignored
loadPluginInitialized_Ignored(w, p, ok) ==
  LET registered ==
        [w EXCEPT !.reg = registerPluginFeatures(w.reg, p, Len(Plugin(p).features))]
  IN  IF Plugin(p).activate
        THEN Suspended(registered, "activate")
        ELSE Returned([registered EXCEPT !.status[p] = "loaded",
                                         !.plugins = PluginsSet(@, p)])

\* loadPlugin from the settling of plugin.initialize to the next await
loadPluginInitialized(w, p, ok) ==
  IF ~ok
    THEN Threw([w EXCEPT !.status[p] = "error"])
    ELSE
      LET registered ==
            [w EXCEPT !.reg = registerPluginFeatures(w.reg, p, Len(Plugin(p).features))]
      IN  IF Plugin(p).activate
            THEN Suspended(registered, "activate")
            ELSE Returned([registered EXCEPT !.status[p] = "loaded",
                                             !.plugins = PluginsSet(@, p)])

\* Mutant: the plugin is not stored after activate
loadPluginActivated_NotStored(w, p, ok) ==
  IF ~ok
    THEN Threw([w EXCEPT !.status[p] = "error"])
    ELSE Returned([w EXCEPT !.status[p] = "active"])

\* loadPlugin from the settling of plugin.activate to its end
loadPluginActivated(w, p, ok) ==
  IF ~ok
    THEN Threw([w EXCEPT !.status[p] = "error"])
    ELSE Returned([w EXCEPT !.status[p] = "active", !.plugins = PluginsSet(@, p)])

\* unloadPlugin from the unregistration of the features on
unloadPluginUnregister(w, p, pluginId) ==
  LET unregistered == [w EXCEPT !.reg = unregisterPluginFeatures(w.reg, w.plugins, pluginId)]
  IN  IF Plugin(p).dispose
        THEN Suspended(unregistered, "dispose")
        ELSE Returned([unregistered EXCEPT !.status[p] = "unloaded",
                                           !.plugins = PluginsDelete(@, pluginId)])

\* Mutant: the features are unregistered before deactivate is called
unloadPluginStart_UnregisterFirst(w, pluginId) ==
  LET p == PluginsGet(w.plugins, pluginId)
  IN  IF p = Undefined THEN Returned(w)
      ELSE IF Plugin(p).deactivate
        THEN Suspended([w EXCEPT !.reg = unregisterPluginFeatures(w.reg, w.plugins, pluginId)],
                       "deactivate")
      ELSE unloadPluginUnregister(w, p, pluginId)

\* unloadPlugin up to its first await; plugin is this.plugins.get(pluginId)
unloadPluginStart(w, pluginId) ==
  LET p == PluginsGet(w.plugins, pluginId)
  IN  IF p = Undefined THEN Returned(w)
      ELSE IF Plugin(p).deactivate THEN Suspended(w, "deactivate")
      ELSE unloadPluginUnregister(w, p, pluginId)

\* Mutant: a failure of plugin.deactivate is swallowed
unloadPluginDeactivated_Swallowed(w, p, pluginId, ok) ==
  unloadPluginUnregister(w, p, pluginId)

\* unloadPlugin from the settling of plugin.deactivate to the next await
unloadPluginDeactivated(w, p, pluginId, ok) ==
  IF ~ok THEN Threw(w) ELSE unloadPluginUnregister(w, p, pluginId)

\* Mutant: the catch of unloadPlugin sets the status to ERROR as the catch of
\* loadPlugin does
unloadPluginDisposed_Error(w, p, pluginId, ok) ==
  IF ~ok
    THEN Threw([w EXCEPT !.status[p] = "error"])
    ELSE Returned([w EXCEPT !.status[p] = "unloaded",
                            !.plugins = PluginsDelete(@, pluginId)])

\* unloadPlugin from the settling of plugin.dispose to its end
unloadPluginDisposed(w, p, pluginId, ok) ==
  IF ~ok
    THEN Threw(w)
    ELSE Returned([w EXCEPT !.status[p] = "unloaded",
                            !.plugins = PluginsDelete(@, pluginId)])

\* The task record of a call after a step
TaskAfter(r, p, pluginId) ==
  IF r.pc = "idle" THEN IdleTask
  ELSE [pc |-> r.pc, plugin |-> p, pluginId |-> pluginId]

----------------------------------------------------------------------------
(* PluginManager: executeApplicableFeatures *)

\* The first loaded plugin that lists a feature with the same id
getFeaturePluginId(ps, feature) ==
  LET owners == {i \in 1..Len(ps) :
                   \E k \in 1..Len(Plugin(ps[i]).features) :
                     Plugin(ps[i]).features[k].id = feature.id}
  IN  IF owners = {} THEN "unknown"
      ELSE Plugin(ps[CHOOSE i \in owners : \A j \in owners : i <= j]).id

ResultIndex(results, pluginId) ==
  CHOOSE i \in 1..Len(results) : results[i].pluginId = pluginId

\* Mutant: every Feature is executed at once
ToStart_All(started, inProgress, n) == (1..n) \ started

\* The for loop awaits each execute before it goes on: the next Feature is
\* started when none is in progress
ToStart(started, inProgress, n) ==
  IF inProgress = {} /\ Cardinality(started) < n
    THEN {Cardinality(started) + 1}
    ELSE {}

\* Mutant: an aggregate is created for every Feature
StartExecute_AlwaysNew(inv, ps, i) ==
  LET pluginId == getFeaturePluginId(ps, inv.applicable[i])
  IN  [inv EXCEPT
         !.pluginResults =
            Append(@, [pluginId |-> pluginId, success |-> TRUE,
                       executedFeatures |-> <<>>, errors |-> <<>>]),
         !.started = @ \cup {i},
         !.inProgress = @ \cup {i},
         !.pluginOf = [@ EXCEPT ![i] = pluginId],
         !.log = Append(@, [event |-> "start", index |-> i, outcome |-> "none"])]

\* The loop body up to the call of feature.execute
StartExecute(inv, ps, i) ==
  LET pluginId == getFeaturePluginId(ps, inv.applicable[i])
      known == \E k \in 1..Len(inv.pluginResults) : inv.pluginResults[k].pluginId = pluginId
  IN  [inv EXCEPT
         !.pluginResults =
            IF known THEN @
            ELSE Append(@, [pluginId |-> pluginId, success |-> TRUE,
                            executedFeatures |-> <<>>, errors |-> <<>>]),
         !.started = @ \cup {i},
         !.inProgress = @ \cup {i},
         !.pluginOf = [@ EXCEPT ![i] = pluginId],
         !.log = Append(@, [event |-> "start", index |-> i, outcome |-> "none"])]

RECURSIVE StartEach(_, _, _)
StartEach(inv, ps, todo) ==
  IF todo = {} THEN inv
  ELSE LET i == CHOOSE k \in todo : \A j \in todo : k <= j
       IN  StartEach(StartExecute(inv, ps, i), ps, todo \ {i})

\* Starts what the loop starts next, or returns the results
Continue(inv, ps) ==
  LET todo == ToStart(inv.started, inv.inProgress, Len(inv.applicable))
      next == StartEach(inv, ps, todo)
  IN  IF next.inProgress = {} /\ next.started = 1..Len(inv.applicable)
        THEN [next EXCEPT !.pc = "returned"]
        ELSE next

\* `Feature execution failed: ${error}`
ExecutionFailedMessage(error) == <<"Feature execution failed: ", error>>

\* Mutant: an exception of execute leaves the loop
CatchExecute_Rethrow(outcome) == IF outcome = "throws" THEN "propagated" ELSE "result"

\* try { await feature.execute(context) ... } catch (error) { ... }
CatchExecute(outcome) == IF outcome = "throws" THEN "caught" ELSE "result"

\* Mutant: a result with success = false does not mark the aggregate failed
RecordOutcome_OnlyThrows(inv, i, outcome) ==
  LET feature == inv.applicable[i]
      k == ResultIndex(inv.pluginResults, inv.pluginOf[i])
      entry(result) ==
        [featureId |-> feature.id,
         implementation |-> getImplementationName(feature),
         result |-> result]
      logged == [inv EXCEPT !.inProgress = @ \ {i},
                            !.log = Append(@, [event |-> "settle", index |-> i,
                                               outcome |-> outcome])]
  IN  IF outcome = "throws"
        THEN [logged EXCEPT
                !.pluginResults[k].success = FALSE,
                !.pluginResults[k].errors = Append(@, ExecutionFailedMessage("boom")),
                !.pluginResults[k].executedFeatures =
                   Append(@, entry([success |-> FALSE,
                                    error |-> ExecutionFailedMessage("boom")]))]
        ELSE [logged EXCEPT
                !.pluginResults[k].executedFeatures =
                   Append(@, entry(ExecuteResult(outcome)))]

\* The rest of the loop body after execute has settled
RecordOutcome(inv, i, outcome) ==
  LET feature == inv.applicable[i]
      k == ResultIndex(inv.pluginResults, inv.pluginOf[i])
      entry(result) ==
        [featureId |-> feature.id,
         implementation |-> getImplementationName(feature),
         result |-> result]
      logged == [inv EXCEPT !.inProgress = @ \ {i},
                            !.log = Append(@, [event |-> "settle", index |-> i,
                                               outcome |-> outcome])]
  IN  CASE outcome = "success" ->
             [logged EXCEPT
                !.pluginResults[k].executedFeatures =
                   Append(@, entry([success |-> TRUE, error |-> <<>>]))]
        [] outcome = "failure" ->
             [logged EXCEPT
                !.pluginResults[k].executedFeatures =
                   Append(@, entry([success |-> FALSE, error |-> <<"declined">>])),
                !.pluginResults[k].success = FALSE,
                !.pluginResults[k].errors = Append(@, <<"declined">>)]
        [] outcome = "failure without message" ->
             [logged EXCEPT
                !.pluginResults[k].executedFeatures =
                   Append(@, entry(ExecuteResult(outcome))),
                !.pluginResults[k].success = FALSE,
                !.pluginResults[k].errors = Append(@, <<"Unknown error">>)]
        [] outcome = "throws" ->
             [logged EXCEPT
                !.pluginResults[k].success = FALSE,
                !.pluginResults[k].errors = Append(@, ExecutionFailedMessage("boom")),
                !.pluginResults[k].executedFeatures =
                   Append(@, entry([success |-> FALSE,
                                    error |-> ExecutionFailedMessage("boom")]))]

\* The record {} that stands for missing settings
EmptySettings == "{}"

\* The values of FeatureMapping.settings
Settings == {"{theme: light}", "{theme: dark}"}

\* mapping.settings || {}; a mapping without the optional property has no
\* field settings
MappingSettings(mapping) ==
  IF "settings" \in DOMAIN mapping THEN mapping.settings ELSE EmptySettings

\* siteConfig.enabledFeatures.find((m) => m.featureId === featureId), then
\* mapping?.settings || {}
getFeatureSettings(config, featureId) ==
  LET found == {i \in 1..Len(config.enabledFeatures) :
                  config.enabledFeatures[i].featureId = featureId}
  IN  IF found = {} THEN EmptySettings
      ELSE MappingSettings(
             config.enabledFeatures[CHOOSE i \in found : \A j \in found : i <= j])

\* Mutant: the call goes on without the check of isInitialized
RejectsCall_Never(initialized) == FALSE

\* if (!this.isInitialized) throw new Error("PluginManager not initialized")
RejectsCall(initialized) == ~initialized

\* executeApplicableFeatures up to its first await; settings[i] is the
\* context.settings with which the loop calls execute of the Feature at
\* position i (getFeatureSettings reads only siteConfig and feature.id)
executeApplicableFeaturesStart(reg, ps, initialized, config) ==
  IF RejectsCall(initialized)
    THEN [NoInvocation EXCEPT !.pc = "rejected", !.wasInitialized = initialized]
    ELSE
      LET found == getApplicableFeatures(reg, config, Url)
      IN  Continue([NoInvocation EXCEPT
                      !.pc = "running",
                      !.wasInitialized = initialized,
                      !.applicable = found.applicableFeatures,
                      !.checked = found.checked,
                      !.pluginOf = [i \in 1..Len(found.applicableFeatures) |-> Undefined],
                      !.settings =
                         [i \in 1..Len(found.applicableFeatures) |->
                            getFeatureSettings(config, found.applicableFeatures[i].id)]],
                   ps)

\* Mutant: the loop does not go on after the outcome has been recorded
executeApplicableFeaturesSettled_Stalls(inv, ps, i, outcome) ==
  RecordOutcome(inv, i, outcome)

\* executeApplicableFeatures from the settling of execute i to the next await
executeApplicableFeaturesSettled(inv, ps, i, outcome) ==
  IF CatchExecute(outcome) = "propagated"
    THEN [inv EXCEPT !.pc = "rejected", !.inProgress = @ \ {i},
                     !.log = Append(@, [event |-> "settle", index |-> i,
                                        outcome |-> outcome])]
    ELSE Continue(RecordOutcome(inv, i, outcome), ps)

----------------------------------------------------------------------------
(* PluginManager: executeFeature *)

\* `Feature not found: ${featureId}/${implementation || "default"}`
FeatureNotFoundMessage(featureId, implementation) ==
  <<"Feature not found: ", featureId, "/",
    IF Truthy(implementation) THEN implementation ELSE "default">>

\* executeFeature up to its first await; `executed` is the Feature whose
\* execute has been called
executeFeatureStart(reg, featureId, implementation) ==
  LET feature == getFeature(reg, featureId, implementation)
  IN  IF feature = NoFeature
        THEN [NoFeatureCall EXCEPT
                !.pc = "returned",
                !.featureId = featureId,
                !.implementation = implementation,
                !.result = [success |-> FALSE,
                            error |-> FeatureNotFoundMessage(featureId, implementation)]]
        ELSE [NoFeatureCall EXCEPT
                !.pc = "running",
                !.featureId = featureId,
                !.implementation = implementation,
                !.executed = feature]

\* Mutant: an exception of execute leaves executeFeature
executeFeatureSettled_Rethrow(call, outcome) ==
  IF outcome = "throws"
    THEN [call EXCEPT !.pc = "rejected", !.outcome = outcome]
    ELSE [call EXCEPT !.pc = "returned", !.outcome = outcome,
                      !.result = ExecuteResult(outcome)]

\* executeFeature from the settling of feature.execute to its end
executeFeatureSettled(call, outcome) ==
  IF outcome = "throws"
    THEN [call EXCEPT !.pc = "returned", !.outcome = outcome,
                      !.result = [success |-> FALSE,
                                  error |-> ExecutionFailedMessage("boom")]]
    ELSE [call EXCEPT !.pc = "returned", !.outcome = outcome,
                      !.result = ExecuteResult(outcome)]

----------------------------------------------------------------------------
(* PluginManager: the steps of its async methods between two awaits;       *)
(* `last` records the call that settled last and whether it returned       *)

Settled(op, subject, result) ==
  Call(op, Undefined, Undefined, subject, FALSE, NoFeature, result = "returned")

\* The caller of the lifecycle methods awaits each call before the next one;
\* executeApplicableFeatures is called from the content script at any time
CallerIdle ==
  /\ initializing.pc = "idle"
  /\ loading["external"].pc = "idle"
  /\ unloading["external"].pc = "idle"
  /\ disposing.pc = "idle"

\* Mutant: initialize() without the check of isInitialized
initializeStart_Always(initialized) == "loadGlobalSettings"

\* if (this.isInitialized) return; otherwise the call is suspended in
\* loadGlobalSettings
initializeStart(initialized) ==
  IF initialized THEN "idle" ELSE "loadGlobalSettings"

\* initialize() up to its first await
CallInitialize ==
  /\ CallerIdle
  /\ IF initializeStart(isInitialized) = "idle"
       THEN /\ last' = Settled("initialize", "already", "returned")
            /\ last' # last
            /\ UNCHANGED initializing
       ELSE /\ initializing' = [IdleInitialize EXCEPT !.pc = "loadGlobalSettings"]
            /\ UNCHANGED last
  /\ UNCHANGED <<registryVars, siteConfig, featureCall, plugins, status, isInitialized,
                 loading, unloading, disposing, invocation>>

\* storage.getItem has answered; discoverAndLoadPlugins starts the import of
\* every module
InitializeSettingsLoaded ==
  /\ initializing.pc = "loadGlobalSettings"
  /\ initializing' = [initializing EXCEPT !.pc = "discover",
                                          !.modules = [i \in Modules |-> "import"]]
  /\ UNCHANGED <<registryVars, last, siteConfig, featureCall, plugins, status, isInitialized,
                 loading, unloading, disposing, invocation>>

\* Mutant: the callback of pluginModules.map has no try/catch, so that a
\* failing loadPlugin rejects Promise.all and with it initialize()
discoverAfterLoad_NoCatch(init, slot, r) ==
  IF r.result = "threw" THEN IdleInitialize
  ELSE [init EXCEPT !.modules[slot] = IF r.pc = "idle" THEN "done" ELSE "loadPlugin"]

\* The callback of pluginModules.map for the module in slot after a step r of
\* its loadPlugin call: it catches a failure and is done when loadPlugin has
\* settled
discoverAfterLoad(init, slot, r) ==
  [init EXCEPT !.modules[slot] = IF r.pc = "idle" THEN "done" ELSE "loadPlugin"]

\* A step r of the loadPlugin call in slot, on plugin instance p
LoadStep(slot, p, r) ==
  /\ SetWorld(r.world)
  /\ loading' = [loading EXCEPT ![slot] = TaskAfter(r, p, Plugin(p).id)]
  /\ IF slot \in Modules
       THEN /\ initializing' = discoverAfterLoad(initializing, slot, r)
            /\ UNCHANGED last
       ELSE /\ UNCHANGED initializing
            /\ last' = IF r.pc = "idle" THEN Settled("loadPlugin", p, r.result) ELSE last

\* import(path) of the module in slot has settled with outcome
ModuleImportedAs(slot, outcome) ==
  /\ initializing.pc = "discover"
  /\ initializing.modules[slot] = "import"
  /\ outcome \in PluginObjects => outcome = ModuleExport(slot)
  /\ IF outcome \in PluginObjects
       THEN LoadStep(slot, outcome, loadPluginStart(World, outcome))
       ELSE /\ initializing' = [initializing EXCEPT !.modules[slot] = "done"]
            /\ UNCHANGED <<registryVars, last, plugins, status, loading>>
  /\ UNCHANGED <<siteConfig, featureCall, isInitialized, unloading, disposing, invocation>>

\* import(path) of a module has settled
ModuleImported ==
  \E slot \in Modules, outcome \in ImportOutcomes : ModuleImportedAs(slot, outcome)

\* Promise.all(loadPromises) has resolved
InitializeDiscovered ==
  /\ initializing.pc = "discover"
  /\ \A slot \in Modules : initializing.modules[slot] = "done"
  /\ isInitialized' = TRUE
  /\ initializing' = IdleInitialize
  /\ last' = Settled("initialize", "completed", "returned")
  /\ UNCHANGED <<registryVars, siteConfig, featureCall, plugins, status,
                 loading, unloading, disposing, invocation>>

\* loadPlugin(p) called from outside, up to its first await
LoadPluginCalled(p) ==
  /\ CallerIdle
  /\ LoadStep("external", p, loadPluginStart(World, p))
  /\ <<loading', last'>> # <<loading, last>>
  /\ UNCHANGED <<siteConfig, featureCall, isInitialized, unloading, disposing, invocation>>

CallLoadPlugin == \E p \in PluginObjects : LoadPluginCalled(p)

\* plugin.initialize(context) of the loadPlugin call in slot has settled:
\* it returned (ok) or threw
LoadInitializeSettledAs(slot, ok) ==
  /\ loading[slot].pc = "initialize"
  /\ LoadStep(slot, loading[slot].plugin,
              loadPluginInitialized(World, loading[slot].plugin, ok))
  /\ UNCHANGED <<siteConfig, featureCall, isInitialized, unloading, disposing, invocation>>

LoadInitializeSettled ==
  \E slot \in LoadSlots, ok \in BOOLEAN : LoadInitializeSettledAs(slot, ok)

\* plugin.activate() of the loadPlugin call in slot has settled
LoadActivateSettledAs(slot, ok) ==
  /\ loading[slot].pc = "activate"
  /\ LoadStep(slot, loading[slot].plugin,
              loadPluginActivated(World, loading[slot].plugin, ok))
  /\ UNCHANGED <<siteConfig, featureCall, isInitialized, unloading, disposing, invocation>>

LoadActivateSettled ==
  \E slot \in LoadSlots, ok \in BOOLEAN : LoadActivateSettledAs(slot, ok)

\* What Promise.all of dispose() learns from the settling of one of its
\* unloadPlugin calls
DisposeAfter(d, pluginId, r) ==
  IF d.pc = "unloading" /\ r.pc = "idle"
    THEN [d EXCEPT !.pending = @ \ {pluginId},
                   !.failed = @ \/ r.result = "threw"]
    ELSE d

\* A step r of the unloadPlugin(pluginId) call in slot
UnloadStep(slot, p, pluginId, r) ==
  /\ SetWorld(r.world)
  /\ unloading' = [unloading EXCEPT ![slot] = TaskAfter(r, p, pluginId)]
  /\ IF slot = "external"
       THEN /\ UNCHANGED disposing
            /\ last' = IF r.pc = "idle" THEN Settled("unloadPlugin", pluginId, r.result)
                       ELSE last
       ELSE /\ disposing' = DisposeAfter(disposing, pluginId, r)
            /\ UNCHANGED last

\* unloadPlugin(pluginId) called from outside, up to its first await
UnloadPluginCalled(pluginId) ==
  /\ CallerIdle
  /\ UnloadStep("external", PluginsGet(plugins, pluginId), pluginId,
                unloadPluginStart(World, pluginId))
  /\ <<unloading', last', plugins', status'>> # <<unloading, last, plugins, status>>
  /\ UNCHANGED <<siteConfig, featureCall, isInitialized, initializing, loading, invocation>>

CallUnloadPlugin == \E pluginId \in PluginIds : UnloadPluginCalled(pluginId)

\* plugin.deactivate() of the unloadPlugin call in slot has settled
UnloadDeactivateSettledAs(slot, ok) ==
  /\ unloading[slot].pc = "deactivate"
  /\ UnloadStep(slot, unloading[slot].plugin, unloading[slot].pluginId,
                unloadPluginDeactivated(World, unloading[slot].plugin,
                                        unloading[slot].pluginId, ok))
  /\ UNCHANGED <<siteConfig, featureCall, isInitialized, initializing, loading, invocation>>

UnloadDeactivateSettled ==
  \E slot \in UnloadSlots, ok \in BOOLEAN : UnloadDeactivateSettledAs(slot, ok)

\* plugin.dispose() of the unloadPlugin call in slot has settled
UnloadDisposeSettledAs(slot, ok) ==
  /\ unloading[slot].pc = "dispose"
  /\ UnloadStep(slot, unloading[slot].plugin, unloading[slot].pluginId,
                unloadPluginDisposed(World, unloading[slot].plugin,
                                     unloading[slot].pluginId, ok))
  /\ UNCHANGED <<siteConfig, featureCall, isInitialized, initializing, loading, invocation>>

UnloadDisposeSettled ==
  \E slot \in UnloadSlots, ok \in BOOLEAN : UnloadDisposeSettledAs(slot, ok)

RECURSIVE UnloadEach(_, _, _)
\* Array.from(this.plugins.keys()).map((pluginId) => this.unloadPlugin(pluginId)):
\* the world, the unload tasks and the state of Promise.all after the calls
\* for the plugins ps from position n on, each run up to its first await
UnloadEach(acc, ps, n) ==
  IF n > Len(ps) THEN acc
  ELSE LET p == ps[n]
           pluginId == Plugin(p).id
           r == unloadPluginStart(acc.world, pluginId)
       IN  UnloadEach([world |-> r.world,
                       tasks |-> [acc.tasks EXCEPT ![pluginId] = TaskAfter(r, p, pluginId)],
                       disposing |-> DisposeAfter(acc.disposing, pluginId, r)],
                      ps, n + 1)

\* dispose() up to its await of Promise.all
CallDispose ==
  /\ CallerIdle
  /\ \A pluginId \in PluginIds : unloading[pluginId].pc = "idle"
  /\ LET r == UnloadEach([world |-> World, tasks |-> unloading,
                          disposing |->
                            [pc |-> "unloading",
                             pending |-> {Plugin(plugins[i]).id : i \in 1..Len(plugins)},
                             failed |-> FALSE]],
                         plugins, 1)
     IN  /\ SetWorld(r.world)
         /\ unloading' = r.tasks
         /\ disposing' = r.disposing
  /\ UNCHANGED <<last, siteConfig, featureCall, isInitialized, initializing, loading, invocation>>

\* Promise.all(unloadPromises) has settled: it rejects when one unload has
\* thrown and resolves when all have returned
DisposeSettled ==
  /\ disposing.pc = "unloading"
  /\ IF disposing.failed
       THEN /\ last' = Settled("dispose", "manager", "threw")
            /\ UNCHANGED <<registryVars, isInitialized>>
       ELSE /\ disposing.pending = {}
            /\ SetRegistry(clear(Registry))
            /\ isInitialized' = FALSE
            /\ last' = Settled("dispose", "manager", "returned")
  /\ disposing' = IdleDispose
  /\ UNCHANGED <<siteConfig, featureCall, plugins, status, initializing, loading,
                 unloading, invocation>>

\* executeApplicableFeatures(config, url) up to its first await
ExecuteApplicableFeaturesCalled(config) ==
  /\ invocation.pc # "running"
  /\ invocation' = executeApplicableFeaturesStart(Registry, plugins, isInitialized, config)
  /\ invocation' # invocation
  /\ UNCHANGED <<registryVars, last, siteConfig, featureCall, plugins, status,
                 isInitialized, initializing, loading, unloading, disposing>>

CallExecuteApplicableFeatures ==
  \E config \in ManagerSiteConfigs : ExecuteApplicableFeaturesCalled(config)

\* The call of feature.execute(context) for position i of the applicable list
\* has settled
ExecuteSettledAs(i, outcome) ==
  /\ invocation.pc = "running"
  /\ i \in invocation.inProgress
  /\ i \notin invocation.hung
  /\ invocation' = executeApplicableFeaturesSettled(invocation, plugins, i, outcome)
  /\ UNCHANGED <<registryVars, last, siteConfig, featureCall, plugins, status,
                 isInitialized, initializing, loading, unloading, disposing>>

ExecuteSettled ==
  \E i \in invocation.inProgress, outcome \in ExecuteOutcomes :
    ExecuteSettledAs(i, outcome)

\* executeFeature(featureId, implementation, context) up to its first await
CallExecuteFeature ==
  \E featureId \in FeatureIds, implementation \in ImplNames \cup {Undefined} :
    /\ featureCall.pc # "running"
    /\ featureCall' = executeFeatureStart(Registry, featureId, implementation)
    /\ featureCall' # featureCall
    /\ UNCHANGED <<registryVars, last, siteConfig, plugins, status, isInitialized,
                   initializing, loading, unloading, disposing, invocation>>

\* The call of feature.execute(context) made by executeFeature has settled
ExecuteFeatureSettled ==
  \E outcome \in ResultOutcomes :
    /\ featureCall.pc = "running"
    /\ featureCall' = executeFeatureSettled(featureCall, outcome)
    /\ UNCHANGED <<registryVars, last, siteConfig, plugins, status, isInitialized,
                   initializing, loading, unloading, disposing, invocation>>

InitManagerSpec ==
  /\ features = EmptyRegistry.features
  /\ defaultImplementations = EmptyRegistry.defaultImplementations
  /\ aliases = EmptyRegistry.aliases
  /\ last = NoCall
  /\ siteConfig = EmptySiteConfig
  /\ InitManager

NextManager ==
  \/ CallInitialize
  \/ InitializeSettingsLoaded
  \/ ModuleImported
  \/ InitializeDiscovered
  \/ CallLoadPlugin
  \/ LoadInitializeSettled
  \/ LoadActivateSettled
  \/ CallUnloadPlugin
  \/ UnloadDeactivateSettled
  \/ UnloadDisposeSettled
  \/ CallDispose
  \/ DisposeSettled
  \/ CallExecuteApplicableFeatures
  \/ ExecuteSettled

SpecManager == InitManagerSpec /\ [][NextManager]_vars

----------------------------------------------------------------------------
(* loadPlugin and unloadPlugin called while other calls are suspended at   *)
(* an await                                                                *)

\* loadPlugin(p) called by caller while other calls may be in flight, up to
\* its first await
LoadPluginCalledBy(caller, p) ==
  /\ loading[caller].pc = "idle"
  /\ LoadStep(caller, p, loadPluginStart(World, p))
  /\ <<loading', last'>> # <<loading, last>>
  /\ UNCHANGED <<siteConfig, featureCall, isInitialized, unloading, disposing, invocation>>

CallLoadPluginOverlapping ==
  \E caller \in Callers, p \in PluginObjects : LoadPluginCalledBy(caller, p)

\* unloadPlugin(pluginId) called while other calls may be in flight, up to
\* its first await
UnloadPluginCalledDuring(pluginId) ==
  /\ unloading["external"].pc = "idle"
  /\ UnloadStep("external", PluginsGet(plugins, pluginId), pluginId,
                unloadPluginStart(World, pluginId))
  /\ <<unloading', last', plugins', status'>> # <<unloading, last, plugins, status>>
  /\ UNCHANGED <<siteConfig, featureCall, isInitialized, initializing, loading, invocation>>

CallUnloadPluginOverlapping ==
  \E pluginId \in PluginIds : UnloadPluginCalledDuring(pluginId)

NextOverlap ==
  \/ CallLoadPluginOverlapping
  \/ LoadInitializeSettled
  \/ LoadActivateSettled
  \/ CallUnloadPluginOverlapping
  \/ UnloadDeactivateSettled
  \/ UnloadDisposeSettled

SpecOverlap == InitManagerSpec /\ [][NextOverlap]_vars

----------------------------------------------------------------------------
(* Execution of Features on a manager whose plugins have been loaded *)

\* A new PluginManager and its registry
NewWorld ==
  [reg |-> EmptyRegistry, plugins |-> <<>>,
   status |-> [p \in PluginObjects |-> "unloaded"]]

\* The world after loadPlugin(p) has settled; plugin.initialize resolves and
\* plugin.activate, where the plugin has one, resolves or rejects
LoadSettled(w, p, activates) ==
  LET started == loadPluginStart(w, p)
      initialized == loadPluginInitialized(started.world, p, TRUE)
  IN  IF started.pc = "idle" THEN started.world
      ELSE IF initialized.pc = "activate"
        THEN loadPluginActivated(initialized.world, p, activates).world
      ELSE initialized.world

RECURSIVE LoadEach(_, _, _)
LoadEach(w, ps, activates) ==
  IF ps = <<>> THEN w
  ELSE LoadEach(LoadSettled(w, Head(ps), activates), Tail(ps), activates)

\* The orders in which the plugin instances are loaded
LoadOrders == {<<>>, <<"P1">>, <<"P2">>, <<"P1", "P2">>, <<"P2", "P1">>}

\* The managers the Features are executed on
LoadedWorlds == {LoadEach(NewWorld, ps, activates) : ps \in LoadOrders, activates \in BOOLEAN}

\* The site configs handed to executeApplicableFeatures: enabled mappings
\* without priority; a mapping may occur more than once
ExecuteSiteConfigs ==
  {c \in SiteConfigs :
     \A i \in 1..Len(c.enabledFeatures) :
       /\ c.enabledFeatures[i].enabled
       /\ c.enabledFeatures[i].priority = NoPriority}

InitLoaded ==
  /\ \E w \in LoadedWorlds :
       /\ features = w.reg.features
       /\ defaultImplementations = w.reg.defaultImplementations
       /\ aliases = w.reg.aliases
       /\ plugins = w.plugins
       /\ status = w.status
  /\ isInitialized \in BOOLEAN
  /\ last = NoCall
  /\ siteConfig = EmptySiteConfig
  /\ initializing = IdleInitialize
  /\ loading = [slot \in LoadSlots |-> IdleTask]
  /\ unloading = [slot \in UnloadSlots |-> IdleTask]
  /\ disposing = IdleDispose
  /\ invocation = NoInvocation
  /\ featureCall = NoFeatureCall

ExecuteApplicableFeaturesCalledOn ==
  \E config \in ExecuteSiteConfigs : ExecuteApplicableFeaturesCalled(config)

ExecuteSettledWith ==
  \E i \in invocation.inProgress, outcome \in ResultOutcomes :
    ExecuteSettledAs(i, outcome)

NextExecute ==
  \/ ExecuteApplicableFeaturesCalledOn
  \/ ExecuteSettledWith

SpecExecute == InitLoaded /\ [][NextExecute]_vars

\* The orders in which plugins that share a featureId are loaded
SharingOrders == {<<"P2", "P3">>, <<"P3", "P2">>, <<"P1", "P3", "P2">>}

\* The managers on which two loaded plugins contribute Features with the
\* same featureId
SharingWorlds ==
  {LoadEach([NewWorld EXCEPT
               !.status = [p \in PluginObjects \cup SharingObjects |-> "unloaded"]],
            ps, TRUE) : ps \in SharingOrders}

InitSharing ==
  /\ \E w \in SharingWorlds :
       /\ features = w.reg.features
       /\ defaultImplementations = w.reg.defaultImplementations
       /\ aliases = w.reg.aliases
       /\ plugins = w.plugins
       /\ status = w.status
  /\ isInitialized = TRUE
  /\ last = NoCall
  /\ siteConfig = EmptySiteConfig
  /\ initializing = IdleInitialize
  /\ loading = [slot \in LoadSlots |-> IdleTask]
  /\ unloading = [slot \in UnloadSlots |-> IdleTask]
  /\ disposing = IdleDispose
  /\ invocation = NoInvocation
  /\ featureCall = NoFeatureCall

SpecSharing == InitSharing /\ [][NextExecute]_vars

\* The FeatureMapping records with and without settings
SettingsMappings ==
  {m \in Mappings : m.priority = NoPriority}
  \cup {[featureId |-> m.featureId, implementation |-> m.implementation,
         enabled |-> m.enabled, priority |-> m.priority, settings |-> v] :
          m \in {n \in Mappings : n.priority = NoPriority}, v \in Settings}

MaxSettingsMappings == 2

SettingsSiteConfigs == [enabledFeatures : SeqsUpTo(SettingsMappings, MaxSettingsMappings)]

InitSettings ==
  /\ \E w \in LoadedWorlds :
       /\ features = w.reg.features
       /\ defaultImplementations = w.reg.defaultImplementations
       /\ aliases = w.reg.aliases
       /\ plugins = w.plugins
       /\ status = w.status
  /\ isInitialized = TRUE
  /\ last = NoCall
  /\ siteConfig \in SettingsSiteConfigs
  /\ initializing = IdleInitialize
  /\ loading = [slot \in LoadSlots |-> IdleTask]
  /\ unloading = [slot \in UnloadSlots |-> IdleTask]
  /\ disposing = IdleDispose
  /\ invocation = NoInvocation
  /\ featureCall = NoFeatureCall

ExecuteApplicableFeaturesCalledWith == ExecuteApplicableFeaturesCalled(siteConfig)

ExecuteSucceeded ==
  \E i \in invocation.inProgress : ExecuteSettledAs(i, "success")

NextSettings ==
  \/ ExecuteApplicableFeaturesCalledWith
  \/ ExecuteSucceeded

SpecSettings == InitSettings /\ [][NextSettings]_vars

\* The promise of the execute call in progress is one that never settles
ExecuteHangs ==
  \E i \in invocation.inProgress \ invocation.hung :
    /\ invocation.pc = "running"
    /\ invocation' = [invocation EXCEPT !.hung = @ \cup {i}]
    /\ UNCHANGED <<registryVars, last, siteConfig, featureCall, plugins, status,
                   isInitialized, initializing, loading, unloading, disposing>>

NextHang ==
  \/ CallExecuteApplicableFeatures
  \/ ExecuteSettled
  \/ ExecuteHangs

\* An execute call that does not hang settles
SpecHang ==
  InitLoaded /\ [][NextHang]_vars /\ WF_vars(ExecuteSettled)

NextFeature ==
  \/ CallExecuteFeature
  \/ ExecuteFeatureSettled

SpecFeature == InitLoaded /\ [][NextFeature]_vars

----------------------------------------------------------------------------
(* Properties of the registry *)

HasImplementation(featureId, name) ==
  featureId \in DOMAIN features /\ MapHas(features[featureId], name)

\* The Feature stored under (featureId, name), read from the maps without
\* alias resolution; name Undefined reads the default implementation
StoredFeature(reg, featureId, name) ==
  LET n == IF Truthy(name) THEN name ELSE Lookup(reg.defaultImplementations, featureId)
  IN  IF featureId \in DOMAIN reg.features /\ MapHas(reg.features[featureId], n)
        THEN MapGet(reg.features[featureId], n).feature
        ELSE NoFeature

\* C1: the default record of every featureId is absent when the featureId has
\* no implementations and otherwise names an implementation that is present,
\* so that getFeature(featureId) without a name returns a registered Feature.
C1_DefaultIsRegistered ==
  \A featureId \in FeatureIds :
    IF featureId \in DOMAIN defaultImplementations
      THEN /\ HasImplementation(featureId, defaultImplementations[featureId])
           /\ StoredFeature(Registry, featureId, Undefined) # NoFeature
      ELSE featureId \notin DOMAIN features

\* C2: on a featureId that has no implementation yet (and is not shadowed by
\* an alias), after registering two Features with distinct implementation
\* names getFeature returns each under its own name, and without a name it
\* returns the first one unless the second was registered with isDefault.
C2_TwoImplementations ==
  \A f1 \in Features, f2 \in Features :
    \A p1 \in PluginIds \cup {Undefined}, p2 \in PluginIds \cup {Undefined} :
      \A d1 \in BOOLEAN, d2 \in BOOLEAN :
        ( /\ f1.id = f2.id
          /\ getImplementationName(f1) # getImplementationName(f2)
          /\ f1.id \notin DOMAIN features
          /\ ~Truthy(Lookup(aliases, f1.id)) )
        =>
        LET reg == registerFeature(registerFeature(Registry, f1, p1, d1), f2, p2, d2)
        IN  /\ getFeature(reg, f1.id, getImplementationName(f1)) = f1
            /\ getFeature(reg, f1.id, getImplementationName(f2)) = f2
            /\ getFeature(reg, f1.id, Undefined) = IF d2 THEN f2 ELSE f1

OneEntryPerPair ==
  \A featureId \in DOMAIN features :
    \A name \in ImplNames : Cardinality(Indices(features[featureId], name)) <= 1

\* C3: there is at most one entry per (featureId, implementationName), and a
\* registerFeature on a pair that is present replaces the stored Feature and
\* owner and leaves totalFeatures and totalImplementations of getStats as
\* they were.
C3_OverwriteKeepsCounts ==
  /\ []OneEntryPerPair
  /\ [][ ( /\ last'.op = "registerFeature"
           /\ HasImplementation(last'.featureId, last'.implementationName) )
         =>
         ( /\ MapGet(features'[last'.featureId], last'.implementationName) =
                [name |-> last'.implementationName, feature |-> last'.feature,
                 pluginId |-> last'.pluginId]
           /\ getStats(Registry)'.totalFeatures = getStats(Registry).totalFeatures
           /\ getStats(Registry)'.totalImplementations =
                getStats(Registry).totalImplementations ) ]_vars

\* A re-registration of x/default by another plugin with another instance
C3_Witness ==
  /\ last.op = "registerFeature" /\ last.featureId = "x"
  /\ last.implementationName = "default" /\ last.pluginId = "pB"
  /\ last.feature.implementationName = "default"
  /\ "x" \in DOMAIN features /\ Len(features["x"]) = 2
  /\ features["x"][1].name = "alt"
  /\ features["x"][2].feature = last.feature /\ features["x"][2].pluginId = "pB"
  /\ getStats(Registry).totalImplementations = 2

\* C9: unregisterFeature(featureId, implementationName, pluginId) on an entry
\* owned by another plugin id returns false and changes nothing in the
\* registry.
C9_OwnerMismatchIsNoOp ==
  [][ ( /\ last'.op = "unregisterFeature"
        /\ Truthy(last'.implementationName) /\ Truthy(last'.pluginId)
        /\ HasImplementation(last'.featureId, last'.implementationName)
        /\ MapGet(features[last'.featureId], last'.implementationName).pluginId
             # last'.pluginId )
      =>
      ( ~last'.returned /\ UNCHANGED registryVars ) ]_vars

\* unregisterFeature("x", "default", "pA") was refused on pB's entry
C9_Witness ==
  /\ last.op = "unregisterFeature" /\ ~last.returned
  /\ last.featureId = "x" /\ last.implementationName = "default" /\ last.pluginId = "pA"
  /\ HasImplementation("x", "default")
  /\ MapGet(features["x"], "default").pluginId = "pB"
  /\ Lookup(defaultImplementations, "x") = "default"

\* C10: getFeature on an alias returns the Feature stored under the alias's
\* target (its default implementation when no name is given); the target is
\* not resolved through the alias table again.
C10_AliasSingleHop ==
  \A alias \in FeatureIds, name \in ImplNames \cup {Undefined} :
    Truthy(Lookup(aliases, alias)) =>
      getFeature(Registry, alias, name) = StoredFeature(Registry, aliases[alias], name)

\* getFeature("x") was answered from y although y is itself an alias of x,
\* and x holds another Feature
C10_Witness ==
  /\ last.op = "getFeature" /\ last.featureId = "x" /\ ~Truthy(last.implementationName)
  /\ Lookup(aliases, "x") = "y" /\ Lookup(aliases, "y") = "x"
  /\ last.feature = StoredFeature(Registry, "y", Undefined)
  /\ last.feature # NoFeature
  /\ StoredFeature(Registry, "x", Undefined) # NoFeature

\* The step is a call of unregisterFeature with an implementation name that
\* removed the entry
UnregisteredByName ==
  /\ last'.op = "unregisterFeature"
  /\ Truthy(last'.implementationName)
  /\ last'.returned

\* The implementations of the featureId of the call that the call leaves
RemainingAfter == MapDelete(features[last'.featureId], last'.implementationName)

\* C21: unregisterFeature(featureId, implementationName) that removes the
\* current default makes the first remaining implementation in insertion
\* order the new default, or deletes the default record when none remains;
\* removing another implementation leaves the default record unchanged; when
\* the last implementation is removed the featureId is removed from the
\* registry.
C21_UnregisterByName ==
  [][ UnregisteredByName =>
        /\ IF Lookup(defaultImplementations, last'.featureId) = last'.implementationName
             THEN IF RemainingAfter # <<>>
                    THEN defaultImplementations' =
                           Put(defaultImplementations, last'.featureId,
                               RemainingAfter[1].name)
                    ELSE defaultImplementations' =
                           Remove(defaultImplementations, last'.featureId)
             ELSE UNCHANGED defaultImplementations
        /\ IF RemainingAfter = <<>>
             THEN features' = Remove(features, last'.featureId)
             ELSE features' = Put(features, last'.featureId, RemainingAfter) ]_vars

\* unregisterFeature("x", "alt") removed the default of x while beta and
\* default, registered in this order, remained: beta is the new default
C21_Witness ==
  /\ last.op = "unregisterFeature" /\ last.returned
  /\ last.featureId = "x" /\ last.implementationName = "alt"
  /\ ~Truthy(last.pluginId)
  /\ "x" \in DOMAIN features
  /\ MapKeys(features["x"]) = <<"beta", "default">>
  /\ Lookup(defaultImplementations, "x") = "beta"

\* The step is a call of unregisterFeature without an implementation name
UnregisteredWithoutName ==
  /\ last'.op = "unregisterFeature"
  /\ ~Truthy(last'.implementationName)

\* The entries of the featureId of the call whose owner is not the plugin id
\* of the call
NotOwned ==
  IF last'.featureId \in DOMAIN features
    THEN SelectSeq(features[last'.featureId], LAMBDA e : e.pluginId # last'.pluginId)
    ELSE <<>>

OtherFeatureIdsUntouched ==
  \A featureId \in FeatureIds \ {last'.featureId} :
    /\ featureId \in DOMAIN features' <=> featureId \in DOMAIN features
    /\ featureId \in DOMAIN features => features'[featureId] = features[featureId]
    /\ Lookup(defaultImplementations', featureId) =
         Lookup(defaultImplementations, featureId)

\* C22: unregisterFeature(featureId, undefined, pluginId) removes exactly the
\* implementations of featureId owned by pluginId, leaves the implementations
\* of other owners and every other featureId untouched, and returns true
\* exactly when an entry was removed; without a pluginId it removes the
\* featureId with all its implementations and its default record.
C22_UnregisterByPlugin ==
  [][ UnregisteredWithoutName =>
        /\ OtherFeatureIdsUntouched
        /\ UNCHANGED aliases
        /\ IF last'.featureId \notin DOMAIN features
             THEN ~last'.returned /\ UNCHANGED registryVars
             ELSE IF Truthy(last'.pluginId)
               THEN /\ last'.returned <=>
                         Len(NotOwned) < Len(features[last'.featureId])
                    /\ IF NotOwned = <<>>
                         THEN last'.featureId \notin DOMAIN features'
                         ELSE /\ last'.featureId \in DOMAIN features'
                              /\ features'[last'.featureId] = NotOwned
               ELSE /\ last'.returned
                    /\ last'.featureId \notin DOMAIN features'
                    /\ last'.featureId \notin DOMAIN defaultImplementations' ]_vars

\* unregisterFeature("x", undefined, "pA") has removed pA's implementation of
\* x and left the one of pB and the one without owner, and y of pA
C22_Witness ==
  /\ last.op = "unregisterFeature" /\ last.returned
  /\ last.featureId = "x" /\ ~Truthy(last.implementationName) /\ last.pluginId = "pA"
  /\ "x" \in DOMAIN features /\ Len(features["x"]) = 2
  /\ features["x"][1].pluginId = "pB"
  /\ features["x"][2].pluginId = Undefined
  /\ "y" \in DOMAIN features /\ features["y"][1].pluginId = "pA"

\* C27: a featureId has a record in the default-implementation table exactly
\* when it has at least one implementation in the registry, and no featureId
\* is kept with an empty implementation table.
C27_DefaultIffImplemented ==
  /\ DOMAIN defaultImplementations = DOMAIN features
  /\ \A featureId \in DOMAIN features : features[featureId] # <<>>

----------------------------------------------------------------------------
(* Properties of getApplicableFeatures *)

\* The priority number a mapping carries, a missing one counting as 999
StatedPriority(mapping) ==
  IF mapping.priority = NoPriority THEN 999 ELSE mapping.priority

\* C4: the returned Features are in ascending order of their mapping's
\* priority number (missing = 999), and mappings of equal priority keep their
\* order from enabledFeatures.
C4_AscendingPriority ==
  last.op = "getApplicableFeatures" =>
    LET ms == siteConfig.enabledFeatures
        ps == last.result.positions
    IN  \A i \in 1..Len(ps), j \in 1..Len(ps) :
          i < j =>
            \/ StatedPriority(ms[ps[i]]) < StatedPriority(ms[ps[j]])
            \/ /\ StatedPriority(ms[ps[i]]) = StatedPriority(ms[ps[j]])
               /\ ps[i] < ps[j]

\* The positions of the mappings that are enabled, resolve to a registered
\* Feature and whose isApplicable returns true
QualifyingPositions ==
  {i \in 1..Len(siteConfig.enabledFeatures) :
     LET m == siteConfig.enabledFeatures[i]
         f == getFeature(Registry, m.featureId, m.implementation)
     IN  m.enabled /\ f # NoFeature /\ isApplicable(f, Url, siteConfig) = "true"}

----------------------------------------------------------------------------
(* Properties of executeApplicableFeatures *)

\* The step in which executeApplicableFeatures is called
ExecuteIsCalled == invocation.pc # "running" /\ invocation' # invocation

\* C6: executeApplicableFeatures called while isInitialized is false fails
\* with an error and calls neither isApplicable nor execute of any Feature.
C6_UninitializedFails ==
  [][ (ExecuteIsCalled /\ ~isInitialized) =>
        /\ invocation'.pc = "rejected"
        /\ invocation'.checked = 0
        /\ invocation'.started = {}
        /\ invocation'.log = <<>> ]_vars

\* A call rejected on a manager that is not initialized although a loaded
\* plugin has a Feature registered
C6_Witness ==
  /\ invocation.pc = "rejected"
  /\ ~invocation.wasInitialized
  /\ ~isInitialized
  /\ PluginsHas(plugins, "pA")
  /\ HasImplementation("x", "alt")

\* The positions of the applicable Features whose execute has thrown
Thrown ==
  {invocation.log[k].index : k \in {n \in 1..Len(invocation.log) :
                                      /\ invocation.log[n].event = "settle"
                                      /\ invocation.log[n].outcome = "throws"}}

\* The records of the Feature at position i of the applicable list in the
\* aggregate of its plugin
RecordsOf(i) ==
  LET executed ==
        invocation.pluginResults[ResultIndex(invocation.pluginResults,
                                             invocation.pluginOf[i])].executedFeatures
  IN  {executed[k] : k \in {n \in 1..Len(executed) :
                              /\ executed[n].featureId = invocation.applicable[i].id
                              /\ executed[n].implementation =
                                   getImplementationName(invocation.applicable[i])}}

Contains(message, value) == \E k \in 1..Len(message) : message[k] = value

\* C7: when execute of a Feature throws, the invocation does not fail, the
\* Feature is recorded with success = false and an error that contains the
\* thrown value, and the Feature after it in the order is still executed.
C7_ThrowIsRecorded ==
  \A i \in Thrown :
    /\ invocation.pc # "rejected"
    /\ \E r \in RecordsOf(i) :
         ~r.result.success /\ Contains(r.result.error, "boom")
    /\ i < Len(invocation.applicable) => i + 1 \in invocation.started
    /\ invocation.pc = "returned" =>
         invocation.started = 1..Len(invocation.applicable)

\* An invocation that has returned after the first of two Features threw and
\* the second succeeded
C7_Witness ==
  /\ invocation.pc = "returned"
  /\ Len(invocation.applicable) = 2
  /\ Thrown = {1}
  /\ invocation.log[4] = [event |-> "settle", index |-> 2, outcome |-> "success"]
  /\ \E r \in RecordsOf(2) : r.result.success

\* The events of one kind in the log of the invocation, in their order
Events(kind) == SelectSeq(invocation.log, LAMBDA e : e.event = kind)

\* C8: the Features are executed in the order of the applicable list, the
\* execute of a Feature starts only after the execute of the one before it has
\* settled, and no two execute calls of an invocation are in progress at once.
C8_OneAtATimeInOrder ==
  /\ \A k \in 1..Len(Events("start")) : Events("start")[k].index = k
  /\ \A k \in 1..Len(invocation.log) :
       (invocation.log[k].event = "start" /\ invocation.log[k].index > 1) =>
         /\ invocation.log[k - 1].event = "settle"
         /\ invocation.log[k - 1].index = invocation.log[k].index - 1
  /\ Cardinality(invocation.inProgress) <= 1

\* An invocation that has returned after it executed the Feature of plugin pB
\* and then, once that had settled, the Feature of plugin pA
C8_Witness ==
  /\ invocation.pc = "returned"
  /\ Len(invocation.applicable) = 2
  /\ invocation.applicable[1].id = "y" /\ invocation.applicable[2].id = "x"
  /\ invocation.pluginOf = <<"pB", "pA">>
  /\ Len(invocation.log) = 4
  /\ invocation.log[2].event = "settle" /\ invocation.log[3].event = "start"

----------------------------------------------------------------------------
(* Properties of the lifecycle of the PluginManager *)

\* C11: initialize() called after an earlier initialize() has completed
\* returns without error, reads no settings, calls initialize or activate of
\* no plugin, and leaves the plugin map, the registry and isInitialized
\* unchanged.
C11_InitializeIdempotent ==
  [][ (isInitialized /\ CallInitialize) =>
        /\ last' = Settled("initialize", "already", "returned")
        /\ initializing'.pc = "idle"
        /\ \A slot \in LoadSlots : loading'[slot] = loading[slot]
        /\ UNCHANGED <<registryVars, plugins, status, isInitialized>> ]_vars

\* A second initialize() has returned on an initialized manager that holds a
\* loaded plugin and its Features
C11_Witness ==
  /\ last = Settled("initialize", "already", "returned")
  /\ isInitialized
  /\ Len(plugins) > 0
  /\ DOMAIN features # {}

\* The step in which loadPlugin(p) is called, by the outside caller or by the
\* discovery of a module
LoadPluginIsCalled(p) ==
  \/ LoadPluginCalled(p)
  \/ \E slot \in Modules : ModuleImportedAs(slot, p)

\* C12: loadPlugin(plugin) with a plugin id that is already in the loaded map
\* does not fail, calls neither initialize nor activate of the plugin,
\* registers no Feature and leaves the status of the plugin object, the plugin
\* map and the registry unchanged.
C12_LoadLoadedIsNoOp ==
  [][ \A p \in PluginObjects :
        (PluginsHas(plugins, Plugin(p).id) /\ LoadPluginIsCalled(p)) =>
          /\ LoadPluginCalled(p) =>
               /\ last' = Settled("loadPlugin", p, "returned")
               /\ loading'["external"].pc = "idle"
          /\ \A slot \in Modules :
               ModuleImportedAs(slot, p) => loading'[slot].pc = "idle"
          /\ UNCHANGED <<registryVars, plugins, status>> ]_vars

\* loadPlugin has returned for a plugin that is in the loaded map although
\* a failed unloadPlugin has removed its Features from the registry
C12_Witness ==
  /\ last = Settled("loadPlugin", "P1", "returned")
  /\ PluginsHas(plugins, "pA")
  /\ status["P1"] = "active"
  /\ "x" \notin DOMAIN features
  /\ CallerIdle
  /\ \A slot \in UnloadSlots : unloading[slot].pc = "idle"

\* The (featureId, implementationName) pairs whose registry entry has
\* pluginId as its owner
OwnedEntries(fs, pluginId) ==
  {pos \in EntryPositions(fs) : fs[pos[1]][pos[2]].pluginId = pluginId}

\* C13: when the plugin's initialize fails during loadPlugin, the failure is
\* rethrown to the caller, the plugin's status becomes ERROR, the plugin is
\* not added to the loaded map and none of its Features is registered by the
\* call.
C13_InitializeFailure ==
  [][ \A slot \in LoadSlots :
        LoadInitializeSettledAs(slot, FALSE) =>
          LET p == loading[slot].plugin
          IN  /\ loading'[slot].pc = "idle"
              /\ slot = "external" => last' = Settled("loadPlugin", p, "threw")
              /\ status'[p] = "error"
              /\ ~PluginsHas(plugins', Plugin(p).id)
              /\ UNCHANGED <<registryVars, plugins>>
              /\ OwnedEntries(features, Plugin(p).id) = {} =>
                   OwnedEntries(features', Plugin(p).id) = {} ]_vars

\* loadPlugin(P1) has thrown after the plugin's initialize failed: P1 has
\* status ERROR, is not in the loaded map and owns no registry entry
C13_Witness ==
  /\ last = Settled("loadPlugin", "P1", "threw")
  /\ CallerIdle
  /\ status["P1"] = "error"
  /\ ~PluginsHas(plugins, "pA")
  /\ OwnedEntries(features, "pA") = {}
  /\ PluginsHas(plugins, "pB")

\* The status changes of plugin instance p that the claim lists
StatedTransitions(p) ==
  {<<"unloaded", "loading">>, <<"loading", "loaded">>, <<"loading", "error">>,
   <<"active", "unloaded">>, <<"loaded", "unloaded">>}
  \cup (IF Plugin(p).activate THEN {<<"loaded", "active">>} ELSE {})

\* C14: a plugin's status changes only along UNLOADED to LOADING, LOADING to
\* LOADED or ERROR, LOADED to ACTIVE (when activate is present), and ACTIVE or
\* LOADED to UNLOADED.
C14_StatusTransitions ==
  [][ \A p \in PluginObjects :
        status'[p] # status[p] => <<status[p], status'[p]>> \in StatedTransitions(p) ]_vars

\* The status changes of plugin instance p in the amended claim
AmendedTransitions(p) ==
  {<<"unloaded", "loading">>, <<"error", "loading">>, <<"loading", "error">>,
   <<"active", "unloaded">>, <<"loaded", "unloaded">>}
  \cup (IF Plugin(p).activate THEN {<<"loading", "active">>}
                              ELSE {<<"loading", "loaded">>})

\* C14 (amended): a plugin's status changes only along UNLOADED or ERROR to
\* LOADING, LOADING to ACTIVE (when activate is present) or to LOADED (when it
\* is not) or to ERROR, and ACTIVE or LOADED to UNLOADED.
C14_StatusTransitionsAmended ==
  [][ \A p \in PluginObjects :
        status'[p] # status[p] => <<status[p], status'[p]>> \in AmendedTransitions(p) ]_vars

\* P1 has been loaded (LOADING to ACTIVE) and unloaded again, and P2 has been
\* loaded (LOADING to LOADED)
C14_Witness ==
  /\ last = Settled("unloadPlugin", "pA", "returned")
  /\ status["P1"] = "unloaded"
  /\ status["P2"] = "loaded"
  /\ PluginsHas(plugins, "pB") /\ ~PluginsHas(plugins, "pA")

\* unloadPlugin(pluginId) of plugin instance p returns in this step
UnloadReturns(slot, p, pluginId) ==
  /\ unloading'[slot].pc = "idle"
  /\ slot = "external" => last' = Settled("unloadPlugin", pluginId, "returned")
  /\ status'[p] = "unloaded"
  /\ ~PluginsHas(plugins', pluginId)
  /\ OwnedEntries(features', pluginId) = {}

\* The features of p are unregistered in this step, after which dispose is
\* called if present, and the call returns if not
UnloadUnregisters(slot, p, pluginId) ==
  /\ OwnedEntries(features', pluginId) = {}
  /\ IF Plugin(p).dispose
       THEN unloading'[slot].pc = "dispose" /\ UNCHANGED <<plugins, status>>
       ELSE UnloadReturns(slot, p, pluginId)

\* C15: a successful unloadPlugin(pluginId) calls deactivate (if present),
\* then unregisters the plugin's Features, then calls dispose (if present);
\* when it returns the plugin's status is UNLOADED, the plugin is not in the
\* loaded map and the registry holds no entry owned by that plugin id.
C15_UnloadOrder ==
  [][ /\ \A pluginId \in PluginIds :
           (PluginsHas(plugins, pluginId) /\ UnloadPluginCalled(pluginId)) =>
             LET p == PluginsGet(plugins, pluginId)
             IN  IF Plugin(p).deactivate
                   THEN /\ unloading'["external"].pc = "deactivate"
                        /\ UNCHANGED <<registryVars, plugins, status>>
                   ELSE UnloadUnregisters("external", p, pluginId)
      /\ \A slot \in UnloadSlots :
           /\ UnloadDeactivateSettledAs(slot, TRUE) =>
                UnloadUnregisters(slot, unloading[slot].plugin, unloading[slot].pluginId)
           /\ UnloadDisposeSettledAs(slot, TRUE) =>
                /\ UNCHANGED registryVars
                /\ UnloadReturns(slot, unloading[slot].plugin, unloading[slot].pluginId)
           /\ unloading'[slot].pc = "dispose" =>
                OwnedEntries(features', unloading'[slot].pluginId) = {} ]_vars

\* unloadPlugin("pA") has returned: P1 is UNLOADED and gone from the loaded
\* map and the registry, while P2 and its Feature are still there
C15_Witness ==
  /\ last = Settled("unloadPlugin", "pA", "returned")
  /\ CallerIdle
  /\ status["P1"] = "unloaded"
  /\ ~PluginsHas(plugins, "pA")
  /\ OwnedEntries(features, "pA") = {}
  /\ PluginsHas(plugins, "pB")
  /\ OwnedEntries(features, "pB") # {}

\* unloadPlugin(pluginId) of plugin instance p throws in this step and
\* leaves the plugin in the loaded map with the status it had
UnloadThrows(slot, p, pluginId) ==
  /\ unloading'[slot].pc = "idle"
  /\ IF slot = "external"
       THEN last' = Settled("unloadPlugin", pluginId, "threw")
       ELSE disposing.pc = "unloading" => disposing'.failed
  /\ PluginsHas(plugins', pluginId)
  /\ status'[p] # "unloaded"
  /\ UNCHANGED <<plugins, status>>

\* C16: when deactivate or dispose fails during unloadPlugin, the failure
\* propagates to the caller, the plugin stays in the loaded map and its status
\* is not changed to UNLOADED; when deactivate fails, the plugin's Features
\* also stay registered.
C16_UnloadFailure ==
  [][ \A slot \in UnloadSlots :
        /\ UnloadDeactivateSettledAs(slot, FALSE) =>
             /\ UnloadThrows(slot, unloading[slot].plugin, unloading[slot].pluginId)
             /\ UNCHANGED registryVars
        /\ UnloadDisposeSettledAs(slot, FALSE) =>
             UnloadThrows(slot, unloading[slot].plugin, unloading[slot].pluginId) ]_vars

\* unloadPlugin("pA") has thrown because deactivate failed: P1 is still in
\* the loaded map, ACTIVE, and its Features are registered
C16_Witness ==
  /\ last = Settled("unloadPlugin", "pA", "threw")
  /\ CallerIdle
  /\ PluginsHas(plugins, "pA")
  /\ status["P1"] = "active"
  /\ OwnedEntries(features, "pA") # {}
  /\ getFeature(Registry, "x", "alt") = FeatureObject("x", "alt", "true")

\* C17: every dispose() call, once it has settled, leaves no plugin in the
\* loaded map, an empty registry (features, defaults and aliases) and
\* isInitialized = false, also when the deactivate or dispose of a loaded
\* plugin fails.
C17_DisposeLeavesNothing ==
  [][ DisposeSettled =>
        /\ plugins' = <<>>
        /\ features' = EmptyRegistry.features
        /\ defaultImplementations' = EmptyRegistry.defaultImplementations
        /\ aliases' = EmptyRegistry.aliases
        /\ ~isInitialized' ]_vars

\* The positions of the applicable Features grouped under a plugin whose
\* execute returned a result with success = false or threw
FailedUnder(pluginId) ==
  {i \in 1..Len(invocation.applicable) :
     /\ invocation.pluginOf[i] = pluginId
     /\ \E k \in 1..Len(invocation.log) :
          /\ invocation.log[k].event = "settle"
          /\ invocation.log[k].index = i
          /\ invocation.log[k].outcome # "success"}

\* C18: in the list returned by executeApplicableFeatures the aggregate of a
\* plugin has success = false exactly when a Feature grouped under the plugin
\* returned success = false or threw, and its errors hold one message for
\* each such Feature.
C18_AggregateSuccess ==
  invocation.pc = "returned" =>
    \A k \in 1..Len(invocation.pluginResults) :
      LET aggregate == invocation.pluginResults[k]
      IN  /\ ~aggregate.success <=> FailedUnder(aggregate.pluginId) # {}
          /\ Len(aggregate.errors) = Cardinality(FailedUnder(aggregate.pluginId))
          /\ \A n \in 1..Len(aggregate.errors) : aggregate.errors[n] # <<>>

\* A returned list in which plugin pA, with one Feature that succeeded and one
\* that returned success = false, has failed with one message, and plugin pB,
\* whose Feature succeeded, has not
C18_Witness ==
  /\ invocation.pc = "returned"
  /\ Len(invocation.applicable) = 3
  /\ \E k \in 1..Len(invocation.pluginResults) :
       /\ invocation.pluginResults[k].pluginId = "pA"
       /\ Len(invocation.pluginResults[k].executedFeatures) = 2
       /\ Cardinality(FailedUnder("pA")) = 1
       /\ ~invocation.pluginResults[k].success
       /\ Len(invocation.pluginResults[k].errors) = 1
  /\ \E k \in 1..Len(invocation.pluginResults) :
       /\ invocation.pluginResults[k].pluginId = "pB"
       /\ invocation.pluginResults[k].success
       /\ invocation.pluginResults[k].errors = <<>>

\* The positions of the applicable list grouped under a plugin id, ascending
PositionsUnder(pluginId) ==
  SelectSeq([i \in 1..Len(invocation.applicable) |-> i],
            LAMBDA i : invocation.pluginOf[i] = pluginId)

\* C24: the returned list has exactly one aggregate per plugin id that owns
\* an applicable Feature, in the order in which the plugins were first met in
\* the applicable list, and the executedFeatures of an aggregate are one
\* record per occurrence of a Feature of that plugin in the applicable list,
\* in the order of execution, also for occurrences that failed or threw.
C24_OneAggregatePerPlugin ==
  invocation.pc = "returned" =>
    LET results == invocation.pluginResults
    IN  /\ {results[k].pluginId : k \in 1..Len(results)} =
             {invocation.pluginOf[i] : i \in 1..Len(invocation.applicable)}
        /\ \A k \in 1..Len(results), l \in 1..Len(results) :
             k < l =>
               /\ results[k].pluginId # results[l].pluginId
               /\ PositionsUnder(results[k].pluginId)[1] <
                    PositionsUnder(results[l].pluginId)[1]
        /\ \A k \in 1..Len(results) :
             LET positions == PositionsUnder(results[k].pluginId)
                 executed == results[k].executedFeatures
             IN  /\ Len(executed) = Len(positions)
                 /\ \A n \in 1..Len(executed) :
                      /\ executed[n].featureId = invocation.applicable[positions[n]].id
                      /\ executed[n].implementation =
                           getImplementationName(invocation.applicable[positions[n]])

\* A returned list for the applicable Features x/alt, y, x/alt: the aggregate
\* of pA, with two records of which the first threw, and then that of pB
C24_Witness ==
  /\ invocation.pc = "returned"
  /\ invocation.pluginOf = <<"pA", "pB", "pA">>
  /\ invocation.applicable[1] = invocation.applicable[3]
  /\ Len(invocation.pluginResults) = 2
  /\ invocation.pluginResults[1].pluginId = "pA"
  /\ invocation.pluginResults[2].pluginId = "pB"
  /\ Len(invocation.pluginResults[1].executedFeatures) = 2
  /\ ~invocation.pluginResults[1].executedFeatures[1].result.success
  /\ invocation.pluginResults[1].executedFeatures[2].result.success
  /\ invocation.log[2].outcome = "throws"

\* The position in siteConfig.enabledFeatures of the mapping through which
\* the Feature at position i of the applicable list was resolved
ResolvedThrough(i) == getApplicableFeatures(Registry, siteConfig, Url).positions[i]

\* C25: each Feature is executed with the settings of the FeatureMapping
\* through which it was resolved, the empty record when that mapping has no
\* settings.
C25_SettingsOfMapping ==
  \A i \in invocation.started :
    invocation.settings[i] = MappingSettings(siteConfig.enabledFeatures[ResolvedThrough(i)])

\* C26: an invocation on an initialized manager whose execute calls all settle
\* returns its result list; when the execute call of a Feature never settles,
\* no Feature after it is executed and the invocation never returns.
C26_ReturnsUnlessHung ==
  /\ (invocation.pc = "running" /\ invocation.hung = {}) ~>
       (invocation.pc = "returned" \/ invocation.hung # {})
  /\ \A i \in 1..MaxMappings :
       [](i \in invocation.hung =>
            [](/\ invocation.pc = "running"
               /\ invocation.started = 1..i))

\* The execute of the first of two applicable Features hangs: the second has
\* not been started and the invocation is running
C26_Witness ==
  /\ invocation.hung = {1}
  /\ Len(invocation.applicable) = 2
  /\ invocation.started = {1}
  /\ invocation.pc = "running"
  /\ isInitialized

\* C19: executeFeature never throws; when the pair does not resolve to a
\* registered Feature it returns success = false and calls no execute, when
\* the execute of the resolved Feature throws it returns success = false, and
\* otherwise it returns the result of that execute.
C19_ExecuteFeatureNeverThrows ==
  /\ featureCall.pc # "rejected"
  /\ featureCall.pc = "returned" =>
       LET resolved == getFeature(Registry, featureCall.featureId,
                                  featureCall.implementation)
       IN  /\ featureCall.executed = resolved
           /\ resolved = NoFeature =>
                featureCall.outcome = "none" /\ ~featureCall.result.success
           /\ (resolved # NoFeature /\ featureCall.outcome = "throws") =>
                ~featureCall.result.success
           /\ (resolved # NoFeature /\ featureCall.outcome # "throws") =>
                featureCall.result = ExecuteResult(featureCall.outcome)

\* executeFeature has returned a failed result after the execute of the
\* Feature registered as x/alt threw
C19_Witness ==
  /\ featureCall.pc = "returned"
  /\ featureCall.featureId = "x" /\ featureCall.implementation = "alt"
  /\ featureCall.executed = FeatureObject("x", "alt", "true")
  /\ featureCall.outcome = "throws"
  /\ ~featureCall.result.success

\* The load attempt of the module in slot fails in this step: the import
\* fails, the export is not a valid plugin, or loadPlugin throws
ModuleLoadFails(slot) ==
  \/ ModuleImportedAs(slot, "failed")
  \/ ModuleImportedAs(slot, "invalid")
  \/ LoadInitializeSettledAs(slot, FALSE)
  \/ LoadActivateSettledAs(slot, FALSE)

\* C20: during initialize a module that fails to load, is invalid, or whose
\* loadPlugin fails neither stops the load of the other modules nor makes
\* initialize fail, and isInitialized becomes true only after the load attempt
\* of every module has settled.
C20_DiscoveryToleratesFailure ==
  [][ /\ \A slot \in Modules :
           ModuleLoadFails(slot) =>
             /\ initializing'.pc = "discover"
             /\ initializing'.modules[slot] = "done"
             /\ last' = last
             /\ ~isInitialized'
             /\ \A other \in Modules \ {slot} :
                  /\ initializing'.modules[other] = initializing.modules[other]
                  /\ loading'[other] = loading[other]
      /\ (~isInitialized /\ isInitialized') =>
           /\ \A slot \in Modules :
                initializing.modules[slot] = "done" /\ loading[slot].pc = "idle"
           /\ last' = Settled("initialize", "completed", "returned") ]_vars

\* initialize() has completed although the load of P1 failed in the
\* discovery, and P2 of the other module was loaded
C20_Witness ==
  /\ last = Settled("initialize", "completed", "returned")
  /\ isInitialized
  /\ status["P1"] = "error"
  /\ plugins = <<"P2">>
  /\ status["P2"] = "loaded"
  /\ getFeature(Registry, "y", Undefined) = FeatureObject("y", Undefined, "true")

\* Every Feature of plugin instance p is in the registry fs under its id and
\* implementation name, with the plugin's id as its owner
AllRegistered(fs, p) ==
  \A k \in 1..Len(Plugin(p).features) :
    LET feature == Plugin(p).features[k]
    IN  /\ feature.id \in DOMAIN fs
        /\ MapHas(fs[feature.id], getImplementationName(feature))
        /\ MapGet(fs[feature.id], getImplementationName(feature)) =
             [name |-> getImplementationName(feature), feature |-> feature,
              pluginId |-> Plugin(p).id]

\* The loadPlugin call in slot on plugin instance p returns in this step
LoadReturns(slot, p) ==
  /\ loading'[slot].pc = "idle"
  /\ slot = "external" => last' = Settled("loadPlugin", p, "returned")
  /\ status'[p] = IF Plugin(p).activate THEN "active" ELSE "loaded"
  /\ plugins' = PluginsSet(plugins, p)

\* C23: a successful loadPlugin sets LOADING, awaits initialize, registers all
\* Features under the plugin's id, awaits activate (if present), sets ACTIVE
\* (LOADED without activate) and adds the plugin to the loaded map, in this
\* order: a plugin enters the loaded map only in the step that follows its
\* initialize and activate, and its Features enter the registry only in the
\* step that follows its initialize.
C23_LoadOrder ==
  [][ /\ \A p \in PluginObjects :
           (~PluginsHas(plugins, Plugin(p).id) /\ LoadPluginIsCalled(p)) =>
             /\ status'[p] = "loading"
             /\ \E slot \in LoadSlots :
                  loading'[slot] = [pc |-> "initialize", plugin |-> p,
                                    pluginId |-> Plugin(p).id]
             /\ UNCHANGED <<registryVars, plugins>>
      /\ \A slot \in LoadSlots :
           /\ LoadInitializeSettledAs(slot, TRUE) =>
                /\ AllRegistered(features', loading[slot].plugin)
                /\ IF Plugin(loading[slot].plugin).activate
                     THEN /\ loading'[slot].pc = "activate"
                          /\ UNCHANGED <<plugins, status>>
                     ELSE LoadReturns(slot, loading[slot].plugin)
           /\ LoadActivateSettledAs(slot, TRUE) =>
                /\ UNCHANGED registryVars
                /\ LoadReturns(slot, loading[slot].plugin)
      /\ \A p \in PluginObjects :
           /\ (~PluginsHas(plugins, Plugin(p).id) /\ PluginsHas(plugins', Plugin(p).id)) =>
                \E slot \in LoadSlots :
                  /\ loading[slot].plugin = p
                  /\ IF Plugin(p).activate
                       THEN LoadActivateSettledAs(slot, TRUE)
                       ELSE LoadInitializeSettledAs(slot, TRUE)
           /\ ~(OwnedEntries(features', Plugin(p).id) \subseteq
                  OwnedEntries(features, Plugin(p).id)) =>
                \E slot \in LoadSlots :
                  loading[slot].plugin = p /\ LoadInitializeSettledAs(slot, TRUE) ]_vars

\* loadPlugin(P1) has returned after initialize and activate: P1 is ACTIVE,
\* in the loaded map after P2, and its two Features are registered
C23_Witness ==
  /\ last = Settled("loadPlugin", "P1", "returned")
  /\ CallerIdle
  /\ status["P1"] = "active" /\ status["P2"] = "loaded"
  /\ plugins = <<"P2", "P1">>
  /\ AllRegistered(features, "P1")
  /\ AllRegistered(features, "P2")

\* No unloadPlugin call for the plugin id is in progress
NotBeingUnloaded(pluginId) ==
  \A slot \in UnloadSlots :
    unloading[slot].pc = "idle" \/ unloading[slot].pluginId # pluginId

\* C28: while a plugin is in the loaded map (and is not being unloaded), each
\* Feature of its feature list is returned by getFeature(feature.id, its
\* implementation name), also after a failed unloadPlugin of the plugin.
C28_LoadedFeaturesRetrievable ==
  \A i \in 1..Len(plugins) :
    NotBeingUnloaded(Plugin(plugins[i]).id) =>
      \A k \in 1..Len(Plugin(plugins[i]).features) :
        LET feature == Plugin(plugins[i]).features[k]
        IN  getFeature(Registry, feature.id, getImplementationName(feature)) = feature

\* C29: under every interleaving of loadPlugin and unloadPlugin calls at their
\* awaits, every plugin held in the manager's map of loaded plugins has status
\* LOADED or ACTIVE
C29_LoadedMapStatus ==
  \A i \in 1..Len(plugins) : status[plugins[i]] \in {"loaded", "active"}

\* The loadPlugin calls other than caller's that are suspended in
\* plugin.initialize or plugin.activate of plugin instance p
SuspendedLoadsOf(caller, p) ==
  {slot \in LoadSlots \ {caller} :
     /\ loading[slot].pc \in {"initialize", "activate"}
     /\ loading[slot].plugin = p}

\* C30: a loadPlugin call that starts while another call for the same plugin
\* is suspended in initialize or activate does not invoke the plugin's
\* initialize again (nor, after it, activate and the registration of its
\* Features)
C30_OverlappingLoadsInvokeOnce ==
  [][ \A caller \in Callers, p \in PluginObjects :
        (LoadPluginCalledBy(caller, p) /\ SuspendedLoadsOf(caller, p) # {})
          => loading'[caller].pc # "initialize" ]_vars

\* No loadPlugin call on plugin instance p is in progress
NotBeingLoaded(p) ==
  \A slot \in LoadSlots : loading[slot].pc = "idle" \/ loading[slot].plugin # p

\* C31: a plugin that is not in the loaded map and is not being loaded owns
\* no registered Feature, in particular after a loadPlugin call for it has
\* failed in initialize or in activate.
C31_UnloadedOwnsNothing ==
  \A p \in PluginObjects :
    (~PluginsHas(plugins, Plugin(p).id) /\ NotBeingLoaded(p))
      => OwnedEntries(features, Plugin(p).id) = {}

\* The plugin id recorded as the owner of the registry entry of feature
EntryOwner(feature) ==
  MapGet(features[feature.id], getImplementationName(feature)).pluginId

\* C32: each executed Feature is grouped under the plugin id recorded as the
\* owner of its registry entry, also when two loaded plugins contribute
\* Features with the same featureId; "unknown" is used only when that owner
\* is not among the loaded plugins.
C32_GroupedUnderOwner ==
  \A i \in invocation.started :
    LET owner == EntryOwner(invocation.applicable[i])
    IN  invocation.pluginOf[i] =
          IF PluginsHas(plugins, owner) THEN owner ELSE "unknown"

\* The registry holds the entry of feature
EntryPresent(feature) ==
  /\ feature.id \in DOMAIN features
  /\ MapHas(features[feature.id], getImplementationName(feature))

\* C33: when unloadPlugin or dispose runs while an invocation of
\* executeApplicableFeatures is suspended in a Feature's execute, the
\* invocation starts no Feature whose registry entry has been removed by the
\* unload of its owning plugin.
C33_NoExecuteAfterUnload ==
  [][ \A i \in 1..MaxMappings :
        (/\ invocation.pc = "running"
         /\ i \in invocation'.started \ invocation.started)
          => EntryPresent(invocation'.applicable[i]) ]_vars

============================================================================
